---------------------------- MODULE Spec2Model ----------------------------
(***************************************************************************)
(* A model of the integrity-gated merge and validation pipeline of the     *)
(* ORION data layer:                                                       *)
(*   backend/orion/data_loader_fixed.py      merge engine                  *)
(*   OrionRebuildWix-clean/.../integrity.py  hashing, coverage, manifest   *)
(*                                                                         *)
(* Each component has its own variables and its own specification; the     *)
(* variables of the components a specification does not run stay parked at *)
(* their idle value.                                                       *)
(*                                                                         *)
(* Percentages are floats in the source.  Here a percentage is an exact    *)
(* fraction [num, den] (num / den percent); comparisons cross-multiply.    *)
(* The float computations of the source are correctly rounded divisions of *)
(* small integers, so the comparison with the thresholds agrees with the   *)
(* exact one.                                                              *)
(***************************************************************************)
EXTENDS Integers, Sequences, FiniteSets, Bags, TLC

VARIABLES
    \* ---- integrity.coverage, called on two identifier sets
    left_ids,          \* argument: identifiers of the dataset
    right_ids,         \* argument: identifiers of the features
    coverage_pct,      \* the value returned, None before the call
    \* ---- data_loader_fixed._merge_features_with_dataset
    dataset,           \* argument: the dataset, a bag of rows keyed by id
    features,          \* argument: the feature bundle
    strict_mode,       \* argument
    merge_outcome,     \* "idle", "returned" or the exception raised
    merged_df,         \* the table returned, None when nothing is returned
    \* ---- integrity.sha256_file, on a file system that other operations change
    fs,                \* path -> the file's content, None when there is no file
    hash_last,         \* the last call of sha256_file: path, content read, result
    hash_prev,         \* some earlier call of sha256_file, for comparison
    \* ---- integrity.generate_or_validate_manifest (the files are those of fs)
    manifest_file,     \* data/features.manifest.json: None, unreadable or a manifest
    dataset_df,        \* argument of the last call: the id column of the dataset
    features_data,     \* argument of the last call: the feature bundle
    m_strict_mode,     \* argument of the last call
    m_outcome,         \* how the last call ended; "idle" when the last step was no call
    m_returned,        \* the manifest the last call returned, None when it raised
    now,               \* the clock that generated_at is read from
    \* ---- parity_checker.compare_figure_parity
    fig1,              \* the figure of the regular endpoint
    fig2,              \* the figure of the baseline endpoint
    edit,              \* how fig2 was made to differ from fig1
    parity_result,     \* the result of compare_figure_parity, None before
    \* ---- parity_checker.check_endpoint_parity (on fig1, fig2, parity_result)
    VISUAL_PARITY_STRICT,  \* the environment variable, None when not set
    STRICT_FEATURES,       \* the environment variable, None when not set
    endpoint_type,     \* argument
    service_ok,        \* whether the visual endpoints answer
    endpoint_outcome,  \* "idle", "returned" or the exception raised
    \* ---- data_loader_fixed._load_features
    features_file,     \* the file: whether it exists, its extension, format, bundle
    loaded_features,   \* how _load_features ended and what it returned, None before
    \* ---- data_loader_fixed._load_dataset
    dataset_file,      \* the path given: a name and the extensions after it
    dataset_files,     \* what is at each path: "absent" or the format of the file
    loaded_dataset,    \* how _load_dataset ended and the file it read, None before
    \* ---- data_loader_fixed._ensure_id_column
    df,                \* the dataset as loaded: its columns and its rows in order
    ensured_df,        \* the dataset _ensure_id_column returned, None before
    earlier_df,        \* what it returned before the rows were moved, None if never
    \* ---- data_loader_fixed: the module-level caches and their readers
    disk,              \* the dataset file and the features file, None when absent
    strict_env,        \* the environment variable STRICT_FEATURES, None when not set
    _cached_dataset,   \* None or the dataset loaded
    _cached_features,  \* None or the bundle loaded
    _cached_merged_df, \* None or the merged table
    _features_columns_present,  \* None or the list of feature columns
    cache_call,        \* the last step when it was a call: how it ended, what it
                       \* returned, what it read; None after any other step
    \* ---- data_loader.ORIONDataLoader (direct correspondence)
    loader,            \* the loader object: strict_mode, _dataset, _features, _merged_data
    loader_disk,       \* the dataset file and the features file, None when absent
    loader_call,       \* the last call of a method: how it ended and what it returned
    \* ---- orion_fixed_bridge.main
    bridge_args,       \* the mode, and how the script is run
    bridge_world,      \* what the run meets: the step that fails, the records and
                       \* clusters of the bundle, whether the output can be written
    bridge_run,        \* None, or the output file, standard output and exit status
    \* ---- parity_checker.perform_comprehensive_parity_check
    test_scenarios,    \* the list of scenarios, empty before the call
    scenario_pos,      \* 0 before the call, then the ordinal of the next scenario
    pc_results,        \* the results dictionary being filled and returned
    failed_checks,     \* the local counter
    ran,               \* the scenarios run so far, with what each one met
    pc_strict,         \* whether parity strict mode is enabled
    pc_returned,       \* whether the call has returned
    \* ---- direct_mapping_cluster_applier.main
    app_input,         \* the environment, the two files and what the database does
    app_db,            \* the committed content of the database
    app_run            \* None, or what main returned and the updates it sent

covVars   == <<left_ids, right_ids, coverage_pct>>
mergeVars == <<dataset, features, strict_mode, merge_outcome, merged_df>>
hashVars  == <<fs, hash_last, hash_prev>>
manVars   == <<manifest_file, dataset_df, features_data, m_strict_mode,
               m_outcome, m_returned, now>>
parityVars == <<fig1, fig2, edit, parity_result>>
endpointVars == <<VISUAL_PARITY_STRICT, STRICT_FEATURES, endpoint_type,
                  service_ok, endpoint_outcome>>
loadFeaturesVars == <<features_file, loaded_features>>
loadDatasetVars == <<dataset_file, dataset_files, loaded_dataset>>
ensureIdVars == <<df, ensured_df, earlier_df>>
cacheVars == <<disk, strict_env, _cached_dataset, _cached_features,
               _cached_merged_df, _features_columns_present, cache_call>>
loaderVars == <<loader, loader_disk, loader_call>>
bridgeVars == <<bridge_args, bridge_world, bridge_run>>
comprehensiveVars == <<test_scenarios, scenario_pos, pc_results, failed_checks,
                       ran, pc_strict, pc_returned>>
applierVars == <<app_input, app_db, app_run>>
vars      == <<covVars, mergeVars, hashVars, manVars, parityVars, endpointVars,
               loadFeaturesVars, loadDatasetVars, ensureIdVars, cacheVars,
               loaderVars, bridgeVars, comprehensiveVars, applierVars>>

\* Python's None is the empty sequence and a value v that may be None is <<v>>
None == <<>>
Some(v) == <<v>>
Val(o) == o[1]

\* a missing value of a table
NaN  == "NaN"

-----------------------------------------------------------------------------
(* Bounds of the model *)

\* identifiers are 1..MaxIds
MaxIds == 3

Ids == 1..MaxIds

\* the merge is run on tables over the identifiers 1..MaxMergeIds
MaxMergeIds == 2

MergeIds == 1..MaxMergeIds

\* files are sequences of at most MaxFileLen bytes, read BlockSize bytes at a
\* time (4096 in integrity.py:78, scaled to the files of the model)
MaxFileLen == 2
BlockSize == 1

\* the manifest engine is called at most MaxCalls times, on tables of at most
\* MaxRows rows over the identifiers 1..MaxManifestIds
MaxCalls == 2
MaxRows == 2
MaxManifestIds == 2

\* figures compared for parity have at most MaxNodes nodes (mappings, lists
\* and leaves, the root included)
MaxNodes == 5

\* the direct-mapping applier reads files of at most MaxApplierRows rows,
\* with cluster ids 0..MaxClusterId
MaxApplierRows == 2
MaxClusterId == 1

\* the figures the visual endpoints return have at most MaxEndpointNodes nodes
MaxEndpointNodes == 2

\* the arrays of a feature file have at most MaxArrayLen entries
MaxArrayLen == 2

\* a dataset path has at most MaxExtensions extensions after its name
MaxExtensions == 2

\* a loaded dataset has at most MaxColumns columns and MaxDatasetRows rows
MaxColumns == 2
MaxDatasetRows == 2

\* a large number of rows with one identifier: enough of them to move a rate
\* across the 0.5% threshold
Big == 200

-----------------------------------------------------------------------------
(* Exact percentages *)

Pct(n, d) == [num |-> n, den |-> d]

\* p < q, p = q, p <= q for well-formed fractions (den > 0)
PctLess(p, q) == p.num * q.den < q.num * p.den
PctEq(p, q)   == p.num * q.den = q.num * p.den
PctLeq(p, q)  == p.num * q.den <= q.num * p.den

\* integrity.py:53  MIN_COVERAGE_PERCENT = 99.5, in tenths of a percent
MIN_COVERAGE_PERCENT_X10 == 995

MIN_COVERAGE_PERCENT == Pct(MIN_COVERAGE_PERCENT_X10, 10)

-----------------------------------------------------------------------------
(* integrity.coverage *)

\* the slip of dividing by the size of the wrong set
coverage_wrong_denominator(left, right) ==
    IF left = {} THEN Pct(100, 1)
    ELSE IF right = {} THEN Pct(0, 1)
    ELSE Pct(Cardinality(left \cap right) * 100, Cardinality(right))

coverage(left, right) ==
    IF left = {} THEN Pct(100, 1)
    ELSE IF right = {} THEN Pct(0, 1)
    ELSE Pct(Cardinality(left \cap right) * 100, Cardinality(left))

CovInit ==
    /\ left_ids \in SUBSET Ids
    /\ right_ids \in SUBSET Ids
    /\ coverage_pct = None

CovIdle ==
    /\ left_ids = {}
    /\ right_ids = {}
    /\ coverage_pct = None

\* one call of coverage(left_ids, right_ids)
CoverageCall ==
    /\ coverage_pct = None
    /\ coverage_pct' = Some(coverage(left_ids, right_ids))
    /\ UNCHANGED <<left_ids, right_ids>>


-----------------------------------------------------------------------------
(* data_loader_fixed._merge_features_with_dataset                          *)
(*                                                                         *)
(* A table is a bag of rows: a function from the kind of row to the number *)
(* of rows of that kind.  The dataset has the column id; a feature row has *)
(* id, cluster_labels (possibly missing, NaN) and umap2d_x.  The bundle    *)
(* also says how cluster_titles is held (a dict, as orion_preprocessing    *)
(* pickles it, or a list column, as read from Parquet) and whether it has  *)
(* scalar entries (silhouette_score, n_clusters, resolution_used).         *)

\* data_loader_fixed.py:348  unmatched_rate > 0.005, in thousandths
UNMATCHED_RATE_LIMIT_X1000 == 5

\* a cluster id of the bundle, or a missing value
ClusterLabelValues == {"c0", NaN}

FeatureRowKinds == [id : MergeIds, cluster_labels : ClusterLabelValues]

MergedRowKinds ==
    [id : MergeIds, cluster_labels : ClusterLabelValues, umap2d_x : {"x", NaN}]

DatasetCounts == {0, 1, Big}
FeatureCounts == {0, 1, 2, Big}

RECURSIVE SumOver(_, _)
SumOver(f, S) ==
    IF S = {} THEN 0
    ELSE LET k == CHOOSE k \in S : TRUE
         IN  f[k] + SumOver(f, S \ {k})

\* len(table)
Rows(table) == SumOver(table, DOMAIN table)

\* set(dataset['id']) and set(features['id'])
DatasetIds(ds) == {i \in MergeIds : ds[i] > 0}
FeatureIds(f)  == {i \in MergeIds : \E k \in FeatureRowKinds : k.id = i /\ f.rows[k] > 0}

\* dataset.merge(features_df, on='id', how='left'): each dataset row is
\* paired with every feature row of its id; a dataset row with no feature
\* row is kept once, with every feature column missing
LeftMerge(ds, f) ==
    [k \in MergedRowKinds |->
        IF k.umap2d_x = "x"
        THEN ds[k.id] * f.rows[[id |-> k.id, cluster_labels |-> k.cluster_labels]]
        ELSE IF k.cluster_labels = NaN /\ k.id \notin FeatureIds(f)
             THEN ds[k.id]
             ELSE 0]

\* merged_df['cluster_labels'].isna().sum()
UnmatchedCount(m) == SumOver(m, {k \in MergedRowKinds : k.cluster_labels = NaN})

\* strict_mode and unmatched_rate > 0.005, with
\* unmatched_rate = unmatched_count / total_count if total_count > 0 else 0
StrictModeFails(m) ==
    /\ Rows(m) > 0
    /\ 1000 * UnmatchedCount(m) > UNMATCHED_RATE_LIMIT_X1000 * Rows(m)

\* the outcome and the value returned
MergeFeaturesWithDataset(ds, f, strict) ==
    IF f.cluster_titles = "dict"
    THEN \* pd.DataFrame(features) refuses a dict next to list columns
         [outcome |-> "ValueError", merged |-> None]
    ELSE IF f.scalars
    THEN \* len(values) of a scalar entry
         [outcome |-> "TypeError", merged |-> None]
    ELSE LET m == LeftMerge(ds, f)
         IN  IF strict /\ StrictModeFails(m)
             THEN [outcome |-> "StartupIntegrityError", merged |-> None]
             ELSE [outcome |-> "returned", merged |-> Some(m)]

MergeInit ==
    /\ dataset \in [MergeIds -> DatasetCounts]
    /\ features \in [rows : [FeatureRowKinds -> FeatureCounts],
                     cluster_titles : {"dict", "list"},
                     scalars : BOOLEAN]
    /\ strict_mode \in BOOLEAN
    /\ merge_outcome = "idle"
    /\ merged_df = None

MergeIdle ==
    /\ dataset = [i \in MergeIds |-> 0]
    /\ features = [rows |-> [k \in FeatureRowKinds |-> 0],
                   cluster_titles |-> "list", scalars |-> FALSE]
    /\ strict_mode = FALSE
    /\ merge_outcome = "idle"
    /\ merged_df = None

\* one call of _merge_features_with_dataset(dataset, features, strict_mode)
MergeCall ==
    /\ merge_outcome = "idle"
    /\ LET r == MergeFeaturesWithDataset(dataset, features, strict_mode)
       IN  /\ merge_outcome' = r.outcome
           /\ merged_df' = r.merged
    /\ UNCHANGED <<dataset, features, strict_mode>>

-----------------------------------------------------------------------------
(* integrity.sha256_file                                                   *)
(*                                                                         *)
(* The hashlib object is modelled by the message it has absorbed, and its  *)
(* digest by a numbering of messages that gives each message a number of   *)
(* its own: SHA-256 taken as collision free on the files of the model.     *)

DATASET_FILE  == "data/dataset.parquet"
FEATURES_FILE == "data/features.pkl"
Paths == {DATASET_FILE, FEATURES_FILE}
Bytes == {0, 1}

RECURSIVE SeqsUpTo(_, _)
SeqsUpTo(S, n) ==
    IF n = 0 THEN {<<>>}
    ELSE LET shorter == SeqsUpTo(S, n - 1)
         IN  shorter \cup {Append(q, x) : q \in shorter, x \in S}

Contents == SeqsUpTo(Bytes, MaxFileLen)

\* hashlib.sha256(), .update(block), .hexdigest()
sha256_new == <<>>
sha256_update(h, block) == h \o block
RECURSIVE sha256_hexdigest(_)
sha256_hexdigest(h) ==
    IF h = <<>> THEN 0
    ELSE (Head(h) + 1) + (Cardinality(Bytes) + 1) * sha256_hexdigest(Tail(h))

Min(a, b) == IF a <= b THEN a ELSE b

\* f.read(BlockSize) at position pos
ReadBlock(content, pos) ==
    SubSeq(content, pos + 1, Min(pos + BlockSize, Len(content)))

\* the slip of hashing the first block only
RECURSIVE ReadFirstBlockOnly(_, _, _)
ReadFirstBlockOnly(content, pos, h) ==
    sha256_update(h, ReadBlock(content, pos))

\* for byte_block in iter(lambda: f.read(4096), b""): sha256_hash.update(byte_block)
RECURSIVE ReadLoop(_, _, _)
ReadLoop(content, pos, h) ==
    LET byte_block == ReadBlock(content, pos)
    IN  IF byte_block = <<>> THEN h
        ELSE ReadLoop(content, pos + Len(byte_block), sha256_update(h, byte_block))

\* the outcome of sha256_file(file_path) on the file system fsys
sha256_file(fsys, file_path) ==
    IF fsys[file_path] = None
    THEN [outcome |-> "FileNotFoundError", digest |-> None]
    ELSE [outcome |-> "returned",
          digest  |-> Some(sha256_hexdigest(
                              ReadLoop(Val(fsys[file_path]), 0, sha256_new)))]

HashInit ==
    /\ fs = [p \in Paths |-> None]
    /\ hash_last = None
    /\ hash_prev = None

HashIdle == HashInit

\* one call of sha256_file(p); the call before it may be kept for comparison
Sha256FileCall(p) ==
    LET r == sha256_file(fs, p)
    IN  /\ hash_last' = Some([path |-> p, content |-> fs[p],
                              outcome |-> r.outcome, digest |-> r.digest])
        /\ hash_prev' \in {hash_prev, hash_last}
        /\ UNCHANGED fs

\* the other operations on the files: a file is written, a file is removed
WriteFile(p, c) ==
    /\ fs' = [fs EXCEPT ![p] = Some(c)]
    /\ UNCHANGED <<hash_last, hash_prev>>

RemoveFile(p) ==
    /\ fs[p] # None
    /\ fs' = [fs EXCEPT ![p] = None]
    /\ UNCHANGED <<hash_last, hash_prev>>

-----------------------------------------------------------------------------
(* integrity.generate_or_validate_manifest and what it calls               *)
(*                                                                         *)
(* The manifest file holds None (no file), an unreadable text (read fails  *)
(* with IOError or JSONDecodeError) or a manifest.  coverage_pct of a      *)
(* manifest is in hundredths of a percent (round(coverage_pct, 2)).        *)

REQUIRED_FEATURES_COLUMNS ==
    {"id", "cluster_labels", "cluster_titles", "umap2d_x", "umap2d_y"}

ManifestIds == 1..MaxManifestIds

RECURSIVE SeqsOfLen(_, _)
SeqsOfLen(S, n) ==
    IF n = 0 THEN {<<>>}
    ELSE {Append(q, x) : q \in SeqsOfLen(S, n - 1), x \in S}

\* the id columns a table may have
IdColumns == UNION {SeqsOfLen(ManifestIds, n) : n \in 0..MaxRows}

\* the bundles handed to the engine: the id array, the keys present and how
\* cluster_titles is held (a dict in the pickles of orion_preprocessing, a
\* list column in a bundle read from Parquet)
FeatureBundles ==
    [id : IdColumns,
     columns : {REQUIRED_FEATURES_COLUMNS,
                REQUIRED_FEATURES_COLUMNS \ {"cluster_labels"}},
     cluster_titles : {"dict", "list"}]

\* the contents the two data files take
FileVersions == {<<b>> : b \in Bytes}

Range(q) == {q[i] : i \in DOMAIN q}

Unreadable == [readable |-> FALSE, manifest |-> None]
Readable(m) == [readable |-> TRUE, manifest |-> Some(m)]

\* round(coverage_pct, 2), in hundredths: the nearest, ties to even
Round2(p) ==
    LET n == p.num * 100
        q == n \div p.den
        r == n % p.den
    IN  IF 2 * r < p.den THEN q
        ELSE IF 2 * r > p.den THEN q + 1
        ELSE IF q % 2 = 0 THEN q ELSE q + 1

\* the slip of never finding a manifest
read_manifest_finds_nothing(file) == None

\* read_manifest(): None when the file is absent or cannot be read
read_manifest(file) ==
    IF file = None THEN None
    ELSE IF ~Val(file).readable THEN None
    ELSE Val(file).manifest

\* validate_strict_mode: the exception it raises, "passed" when none
validate_strict_mode(fdata, cov) ==
    IF fdata.cluster_titles = "dict" /\ "cluster_titles" \in fdata.columns
    THEN \* pd.DataFrame(features_data) refuses a dict next to list columns
         "ValueError"
    ELSE IF REQUIRED_FEATURES_COLUMNS \ fdata.columns # {}
    THEN "StartupIntegrityError"
    ELSE IF PctLess(cov, MIN_COVERAGE_PERCENT)
    THEN "StartupIntegrityError"
    ELSE "passed"

\* the slip of comparing one of the two hashes only
hash_matches_dataset_only(existing, fsys) ==
    existing.dataset_sha256 = sha256_file(fsys, DATASET_FILE).digest

\* hash_matches of generate_or_validate_manifest
hash_matches(existing, fsys) ==
    /\ existing.dataset_sha256 = sha256_file(fsys, DATASET_FILE).digest
    /\ existing.features_sha256 = sha256_file(fsys, FEATURES_FILE).digest

\* create_manifest
create_manifest(fsys, ddf, fdata, cov, strict, time) ==
    [features_sha256 |-> sha256_file(fsys, FEATURES_FILE).digest,
     dataset_sha256  |-> sha256_file(fsys, DATASET_FILE).digest,
     rows_dataset    |-> Len(ddf),
     rows_features   |-> Len(fdata.id),
     coverage_pct    |-> Round2(cov),
     generated_at    |-> time,
     strict_mode     |-> strict,
     dataset_file    |-> DATASET_FILE,
     features_file   |-> FEATURES_FILE]

\* the slip of returning a fresh manifest that was never written
generate_or_validate_manifest_without_write(fsys, file, ddf, fdata, strict, time) ==
    LET cov == coverage(Range(ddf), Range(fdata.id))
        validation == IF strict THEN validate_strict_mode(fdata, cov)
                      ELSE "passed"
        existing_manifest == read_manifest(file)
        manifest == create_manifest(fsys, ddf, fdata, cov, strict, time)
    IN  IF validation # "passed"
        THEN [outcome |-> validation, returned |-> None, file |-> file]
        ELSE IF existing_manifest # None /\ hash_matches(Val(existing_manifest), fsys)
        THEN [outcome |-> "reused", returned |-> existing_manifest, file |-> file]
        ELSE [outcome |-> "created", returned |-> Some(manifest), file |-> file]

\* generate_or_validate_manifest: how it ends, what it returns and what the
\* manifest file holds afterwards
generate_or_validate_manifest(fsys, file, ddf, fdata, strict, time) ==
    LET cov == coverage(Range(ddf), Range(fdata.id))
        validation == IF strict THEN validate_strict_mode(fdata, cov)
                      ELSE "passed"
        existing_manifest == read_manifest(file)
        manifest == create_manifest(fsys, ddf, fdata, cov, strict, time)
    IN  IF validation # "passed"
        THEN [outcome |-> validation, returned |-> None, file |-> file]
        ELSE IF existing_manifest # None /\ hash_matches(Val(existing_manifest), fsys)
        THEN [outcome |-> "reused", returned |-> existing_manifest, file |-> file]
        ELSE [outcome |-> "created", returned |-> Some(manifest),
              file |-> Some(Readable(manifest))]

ManInit ==
    /\ manifest_file = None
    /\ dataset_df = <<>>
    /\ features_data = [id |-> <<>>, columns |-> REQUIRED_FEATURES_COLUMNS,
                        cluster_titles |-> "list"]
    /\ m_strict_mode = FALSE
    /\ m_outcome = "idle"
    /\ m_returned = None
    /\ now = 0

ManIdle == ManInit

\* the two data files exist when the engine runs
ManFilesInit ==
    /\ fs = [p \in Paths |-> Some(<<0>>)]
    /\ hash_last = None
    /\ hash_prev = None

\* one call of generate_or_validate_manifest, at a later time than the last
ManifestCall(ddf, fdata, strict) ==
    /\ now < MaxCalls
    /\ LET r == generate_or_validate_manifest(fs, manifest_file, ddf, fdata,
                                              strict, now + 1)
       IN  /\ m_outcome' = r.outcome
           /\ m_returned' = r.returned
           /\ manifest_file' = r.file
    /\ dataset_df' = ddf
    /\ features_data' = fdata
    /\ m_strict_mode' = strict
    /\ now' = now + 1
    /\ UNCHANGED hashVars

\* between calls: a data file gets another content
DataFileChanges(p, c) ==
    /\ now < MaxCalls
    /\ fs[p] # Some(c)
    /\ fs' = [fs EXCEPT ![p] = Some(c)]
    /\ m_outcome' = "idle"
    /\ m_returned' = None
    /\ UNCHANGED <<hash_last, hash_prev, manifest_file, dataset_df,
                   features_data, m_strict_mode, now>>

\* between calls: the manifest file is damaged, or removed (clear_manifest)
ManifestDamaged ==
    /\ now < MaxCalls
    /\ manifest_file # None
    /\ manifest_file' = Some(Unreadable)
    /\ m_outcome' = "idle"
    /\ m_returned' = None
    /\ UNCHANGED <<hashVars, dataset_df, features_data, m_strict_mode, now>>

clear_manifest ==
    /\ now < MaxCalls
    /\ manifest_file # None
    /\ manifest_file' = None
    /\ m_outcome' = "idle"
    /\ m_returned' = None
    /\ UNCHANGED <<hashVars, dataset_df, features_data, m_strict_mode, now>>

-----------------------------------------------------------------------------
(* parity_checker: figures, normalisation and hash                         *)
(*                                                                         *)
(* A value of a figure is a node [kind, val, kids]: kind is the name of    *)
(* its Python type, val the literal of a leaf, kids the entries of a dict  *)
(* (in insertion order, [k, v]) or the items of a list ([k |-> "", v]).    *)
(* A text (json.dumps) is the sequence of its tokens and the SHA-256 of a  *)
(* text is taken as collision free.                                        *)

\* the leaves: a string and the floats 0.0, -0.0 and nan
FigureLeaves == {"'a'", "0.0", "-0.0", "nan"}

\* the keys of the dicts, in the order sorted() gives them
SortedKeys == <<"uid", "x">>
FigureKeys == {SortedKeys[i] : i \in DOMAIN SortedKeys}

\* type(obj).__name__
TypeName(lit) == IF lit = "'a'" THEN "str" ELSE "float"

Leaf(lit) == [kind |-> TypeName(lit), val |-> lit, kids |-> <<>>]
ListNode(items) ==
    [kind |-> "list", val |-> "",
     kids |-> [i \in 1..Len(items) |-> [k |-> "", v |-> items[i]]]]
DictNode(entries) == [kind |-> "dict", val |-> "", kids |-> entries]

IsLeaf(obj) == obj.kind \notin {"dict", "list"}

\* the sequences of n distinct keys
KeySeqs(n) ==
    {q \in [1..n -> FigureKeys] : \A i, j \in 1..n : q[i] = q[j] => i = j}

\* the values of exactly n nodes, and the sequences of values of n nodes
RECURSIVE NodesOfSize(_), ValueSeqs(_)
ValueSeqs(n) ==
    IF n = 0 THEN {<<>>}
    ELSE UNION {{<<x>> \o q : x \in NodesOfSize(i), q \in ValueSeqs(n - i)} :
                i \in 1..n}
NodesOfSize(n) ==
    IF n < 1 THEN {}
    ELSE (IF n = 1 THEN {Leaf(lit) : lit \in FigureLeaves} ELSE {})
         \cup {ListNode(q) : q \in ValueSeqs(n - 1)}
         \cup UNION {{DictNode([i \in 1..Len(q) |-> [k |-> ks[i], v |-> q[i]]]) :
                         ks \in KeySeqs(Len(q))} :
                     q \in {r \in ValueSeqs(n - 1) : Len(r) <= Cardinality(FigureKeys)}}

\* fig.to_dict(): a dict of at most n nodes
FiguresUpTo(n) ==
    UNION {{obj \in NodesOfSize(i) : obj.kind = "dict"} : i \in 1..n}

\* the slip of leaving the entries in insertion order
EntriesAsInserted(entries, i) == IF i = 1 THEN entries ELSE <<>>

\* the entries of a dict in the order of their keys: sorted(obj.items())
RECURSIVE EntriesInKeyOrder(_, _)
EntriesInKeyOrder(entries, i) ==
    IF i > Len(SortedKeys) THEN <<>>
    ELSE SelectSeq(entries, LAMBDA e : e.k = SortedKeys[i])
         \o EntriesInKeyOrder(entries, i + 1)

\* recursive_sort of normalize_figure_dict
RECURSIVE recursive_sort(_)
recursive_sort(obj) ==
    IF obj.kind = "dict"
    THEN LET sorted == EntriesInKeyOrder(obj.kids, 1)
         IN  DictNode([i \in 1..Len(sorted) |->
                         [k |-> sorted[i].k, v |-> recursive_sort(sorted[i].v)]])
    ELSE IF obj.kind = "list"
    THEN ListNode([i \in 1..Len(obj.kids) |-> recursive_sort(obj.kids[i].v)])
    ELSE obj

fields_to_remove == {"uid", "meta", "_plotly_private"}

\* normalize_figure_dict: sorted at every depth, the volatile fields popped
\* from the top dict
normalize_figure_dict(fig_dict) ==
    LET normalized == recursive_sort(fig_dict)
    IN  IF normalized.kind = "dict"
        THEN DictNode(SelectSeq(normalized.kids,
                                LAMBDA e : e.k \notin fields_to_remove))
        ELSE normalized

\* the texts the items of a container are dumped to, joined by commas
RECURSIVE JoinWithCommas(_)
JoinWithCommas(texts) ==
    IF texts = <<>> THEN <<>>
    ELSE IF Len(texts) = 1 THEN texts[1]
    ELSE texts[1] \o <<",">> \o JoinWithCommas(Tail(texts))

\* the JSON text of a leaf
JsonLiteral(lit) ==
    IF lit = "'a'" THEN "\"a\"" ELSE IF lit = "nan" THEN "NaN" ELSE lit

\* json.dumps(obj, sort_keys=True, separators=(',', ':'))
RECURSIVE json_dumps(_)
json_dumps(obj) ==
    IF obj.kind = "dict"
    THEN LET sorted == EntriesInKeyOrder(obj.kids, 1)
         IN  <<"{">>
             \o JoinWithCommas([i \in 1..Len(sorted) |->
                    <<sorted[i].k, ":">> \o json_dumps(sorted[i].v)])
             \o <<"}">>
    ELSE IF obj.kind = "list"
    THEN <<"[">>
         \o JoinWithCommas([i \in 1..Len(obj.kids) |-> json_dumps(obj.kids[i].v)])
         \o <<"]">>
    ELSE <<JsonLiteral(obj.val)>>

\* hashlib.sha256(json_str.encode('utf-8')).hexdigest()
sha256_of_text(json_str) == <<"sha256">> \o json_str

\* calculate_figure_hash
calculate_figure_hash(fig_dict) ==
    sha256_of_text(json_dumps(normalize_figure_dict(fig_dict)))

\* a step from a container to one of its values: a key of a dict or an index
\* (from 0) of a list; a path is the sequence of the steps from the root,
\* printed by the source as dotted keys and bracketed indexes
KeyStep(key) == [t |-> "key", key |-> key, index |-> 0]
IndexStep(i) == [t |-> "index", key |-> "", index |-> i]

KeysOf(obj) == {obj.kids[i].k : i \in DOMAIN obj.kids}
ValueOf(obj, key) ==
    obj.kids[CHOOSE i \in DOMAIN obj.kids : obj.kids[i].k = key].v

\* dict1 != dict2 on two leaves of one type (a nan differs from everything,
\* itself included; 0.0 and -0.0 are equal)
py_ne(lit1, lit2) ==
    IF lit1 = "nan" \/ lit2 = "nan" THEN TRUE
    ELSE IF {lit1, lit2} = {"0.0", "-0.0"} THEN FALSE
    ELSE lit1 # lit2

Difference(kind, path, key) == [kind |-> kind, path |-> path, key |-> key]

\* the first of the results that is a difference, None when none is
RECURSIVE FirstDifference(_)
FirstDifference(results) ==
    IF results = <<>> THEN {None}
    ELSE IF Head(results) # {None} THEN Head(results)
    ELSE FirstDifference(Tail(results))

\* find_first_difference: the differences it may return (which key of a set
\* list(...)[0] names is not determined), {None} when it returns None
RECURSIVE find_first_difference(_, _, _)
find_first_difference(dict1, dict2, path) ==
    IF dict1.kind # dict2.kind
    THEN {Some(Difference("Type mismatch", path, ""))}
    ELSE IF dict1.kind = "dict"
    THEN LET keys1 == KeysOf(dict1)
             keys2 == KeysOf(dict2)
             common == SelectSeq(SortedKeys, LAMBDA k : k \in keys1 \cap keys2)
         IN  IF keys1 \ keys2 # {}
             THEN {Some(Difference("Key missing in second dict", path, k)) :
                     k \in keys1 \ keys2}
             ELSE IF keys2 \ keys1 # {}
             THEN {Some(Difference("Key missing in first dict", path, k)) :
                     k \in keys2 \ keys1}
             ELSE FirstDifference(
                    [i \in 1..Len(common) |->
                       find_first_difference(ValueOf(dict1, common[i]),
                                             ValueOf(dict2, common[i]),
                                             Append(path, KeyStep(common[i])))])
    ELSE IF dict1.kind = "list"
    THEN IF Len(dict1.kids) # Len(dict2.kids)
         THEN {Some(Difference("List length mismatch", path, ""))}
         ELSE FirstDifference(
                [i \in 1..Len(dict1.kids) |->
                   find_first_difference(dict1.kids[i].v, dict2.kids[i].v,
                                         Append(path, IndexStep(i - 1)))])
    ELSE IF py_ne(dict1.val, dict2.val)
         THEN {Some(Difference("Value mismatch", path, ""))}
         ELSE {None}

\* compare_figure_parity: the results it may return
compare_figure_parity(fig1_dict, fig2_dict) ==
    LET hash1 == calculate_figure_hash(fig1_dict)
        hash2 == calculate_figure_hash(fig2_dict)
        parity_ok == hash1 = hash2
    IN  IF parity_ok
        THEN {[parity_ok |-> TRUE, hash_regular |-> hash1, hash_baseline |-> hash2,
               has_first_difference |-> FALSE, first_difference |-> None]}
        ELSE {[parity_ok |-> FALSE, hash_regular |-> hash1, hash_baseline |-> hash2,
               has_first_difference |-> TRUE, first_difference |-> first_diff] :
                first_diff \in find_first_difference(
                                  normalize_figure_dict(fig1_dict),
                                  normalize_figure_dict(fig2_dict), <<>>)}

\* ---- how the two figures of a comparison come to differ

StepTo(obj, i) ==
    IF obj.kind = "dict" THEN KeyStep(obj.kids[i].k) ELSE IndexStep(i - 1)
KidIndex(obj, step) ==
    IF obj.kind = "dict"
    THEN CHOOSE i \in DOMAIN obj.kids : obj.kids[i].k = step.key
    ELSE step.index + 1

\* the paths of the values inside obj
RECURSIVE Positions(_)
Positions(obj) ==
    UNION {{<<StepTo(obj, i)>>}
           \cup {<<StepTo(obj, i)>> \o q : q \in Positions(obj.kids[i].v)} :
           i \in DOMAIN obj.kids}

RECURSIVE NodeAt(_, _)
NodeAt(obj, path) ==
    IF path = <<>> THEN obj
    ELSE NodeAt(obj.kids[KidIndex(obj, Head(path))].v, Tail(path))

RECURSIVE ReplaceAt(_, _, _)
ReplaceAt(obj, path, new) ==
    IF path = <<>> THEN new
    ELSE LET i == KidIndex(obj, Head(path))
         IN  [obj EXCEPT !.kids[i].v = ReplaceAt(obj.kids[i].v, Tail(path), new)]

RemoveKid(kids, i) == SubSeq(kids, 1, i - 1) \o SubSeq(kids, i + 1, Len(kids))

RECURSIVE DropAt(_, _)
DropAt(obj, path) ==
    LET i == KidIndex(obj, Head(path))
    IN  IF Len(path) = 1 THEN [obj EXCEPT !.kids = RemoveKid(obj.kids, i)]
        ELSE [obj EXCEPT !.kids[i].v = DropAt(obj.kids[i].v, Tail(path))]

\* the same structure with the keys of its dicts inserted in other orders
RECURSIVE Reorderings(_)
Reorderings(obj) ==
    IF IsLeaf(obj) THEN {obj}
    ELSE LET n == Len(obj.kids)
             choices == [i \in 1..n |-> Reorderings(obj.kids[i].v)]
             picks == {f \in [1..n -> UNION {choices[i] : i \in 1..n}] :
                         \A i \in 1..n : f[i] \in choices[i]}
         IN  IF obj.kind = "list"
             THEN {ListNode(f) : f \in picks}
             ELSE {DictNode([i \in 1..n |->
                               [k |-> obj.kids[perm[i]].k, v |-> f[perm[i]]]]) :
                     f \in picks, perm \in Permutations(1..n)}

\* the values put in the place of one: the leaves, [] and {}
ReplacementNodes == NodesOfSize(1)

NoEdit == [kind |-> "none", path |-> <<>>, swapped |-> FALSE]

ParityInit ==
    /\ fig1 \in FiguresUpTo(MaxNodes)
    /\ fig2 = fig1
    /\ edit = NoEdit
    /\ parity_result = None

ParityIdle ==
    /\ fig1 = DictNode(<<>>)
    /\ fig2 = DictNode(<<>>)
    /\ edit = NoEdit
    /\ parity_result = None

\* the baseline figure lists its keys in another order
ReorderKeys ==
    /\ edit = NoEdit /\ parity_result = None
    /\ fig2' \in Reorderings(fig1) \ {fig1}
    /\ edit' = [kind |-> "reorder", path |-> <<>>, swapped |-> FALSE]
    /\ UNCHANGED <<fig1, parity_result>>

\* the baseline figure has another value at one place
ReplaceValue(path, new) ==
    /\ edit = NoEdit /\ parity_result = None
    /\ path \in Positions(fig1)
    /\ NodeAt(fig1, path) # new
    /\ fig2' = ReplaceAt(fig1, path, new)
    /\ edit' = [kind |-> "replace", path |-> path, swapped |-> FALSE]
    /\ UNCHANGED <<fig1, parity_result>>

\* the baseline figure lacks one key or one item
DropValue(path) ==
    /\ edit = NoEdit /\ parity_result = None
    /\ path \in Positions(fig1)
    /\ fig2' = DropAt(fig1, path)
    /\ edit' = [kind |-> "drop", path |-> path, swapped |-> FALSE]
    /\ UNCHANGED <<fig1, parity_result>>

\* the two figures are those of the other endpoint
SwapFigures ==
    /\ edit.kind \in {"replace", "drop"} /\ ~edit.swapped /\ parity_result = None
    /\ fig1' = fig2
    /\ fig2' = fig1
    /\ edit' = [edit EXCEPT !.swapped = TRUE]
    /\ UNCHANGED parity_result

ParityCompare ==
    /\ parity_result = None
    /\ parity_result' \in {Some(r) : r \in compare_figure_parity(fig1, fig2)}
    /\ UNCHANGED <<fig1, fig2, edit>>

-----------------------------------------------------------------------------
(* parity_checker.check_endpoint_parity and is_strict_mode_enabled         *)

\* the values an environment variable takes
EnvValues == {None, Some("true"), Some("TRUE"), Some("false"), Some("1")}

\* os.getenv(name, default)
os_getenv(value, default) == IF value = None THEN default ELSE Val(value)

\* str.lower()
lower(str) == IF str = "TRUE" THEN "true" ELSE str

\* the slip of reading STRICT_FEATURES only
is_strict_mode_enabled_without_override(visual, general) ==
    lower(os_getenv(general, "true")) = "true"

\* is_strict_mode_enabled
is_strict_mode_enabled(visual, general) ==
    LET visual_strict == lower(os_getenv(visual, ""))
        strict_features == lower(os_getenv(general, "true"))
    IN  IF visual_strict \in {"true", "false"}
        THEN visual_strict = "true"
        ELSE strict_features = "true"

EndpointTypes == {"radar", "3d", "bar"}

\* check_endpoint_parity: the ways it may end, with the result it returns
check_endpoint_parity(type, regular_fig, baseline_fig, answers, visual, general) ==
    IF type \notin {"radar", "3d"}
    THEN {[outcome |-> "ParityCheckError", result |-> None]}
    ELSE IF ~answers
    THEN {[outcome |-> "ParityCheckError", result |-> None]}
    ELSE {IF is_strict_mode_enabled(visual, general) /\ ~r.parity_ok
          THEN [outcome |-> "ParityMismatchError", result |-> None]
          ELSE [outcome |-> "returned", result |-> Some(r)] :
            r \in compare_figure_parity(regular_fig, baseline_fig)}

\* the figures the endpoint may give the second time, given the first
BaselineFigures(fig) ==
    {fig} \cup {ReplaceAt(fig, p, new) : p \in Positions(fig), new \in ReplacementNodes}
          \cup {DropAt(fig, p) : p \in Positions(fig)}

EndpointInit ==
    /\ fig1 \in FiguresUpTo(MaxEndpointNodes)
    /\ fig2 \in BaselineFigures(fig1)
    /\ edit = NoEdit
    /\ parity_result = None
    /\ VISUAL_PARITY_STRICT \in EnvValues
    /\ STRICT_FEATURES \in EnvValues
    /\ endpoint_type \in EndpointTypes
    /\ service_ok \in BOOLEAN
    /\ endpoint_outcome = "idle"

EndpointIdle ==
    /\ VISUAL_PARITY_STRICT = None
    /\ STRICT_FEATURES = None
    /\ endpoint_type = "radar"
    /\ service_ok = TRUE
    /\ endpoint_outcome = "idle"

CheckEndpointParity ==
    /\ endpoint_outcome = "idle"
    /\ \E r \in check_endpoint_parity(endpoint_type, fig1, fig2, service_ok,
                                      VISUAL_PARITY_STRICT, STRICT_FEATURES) :
         /\ endpoint_outcome' = r.outcome
         /\ parity_result' = r.result
    /\ UNCHANGED <<fig1, fig2, edit, VISUAL_PARITY_STRICT, STRICT_FEATURES,
                   endpoint_type, service_ok>>

-----------------------------------------------------------------------------
(* data_loader_fixed._load_features                                        *)
(*                                                                         *)
(* A bundle maps each key to its array, None when the key is absent.  An   *)
(* identifier is a sequence: a prefix and the digits that follow it.       *)

\* f"{i:06d}": the decimal digits of i, padded with zeros to six
ZERO_PAD_WIDTH == 6

RECURSIVE Digits(_)
Digits(i) == IF i < 10 THEN <<i>> ELSE Append(Digits(i \div 10), i % 10)

RECURSIVE PadLeft(_, _)
PadLeft(digits, width) ==
    IF Len(digits) >= width THEN digits ELSE PadLeft(<<0>> \o digits, width)

\* f"orion_{i:06d}"
orion_id(i) == <<"orion_">> \o PadLeft(Digits(i), ZERO_PAD_WIDTH)

\* the arrays of a file: identifiers of its own, and values
StoredIdArrays == {[i \in 1..n |-> <<"force_", i - 1>>] : n \in 0..MaxArrayLen}
ValueArrays == {[i \in 1..n |-> 0] : n \in 0..MaxArrayLen}

Bundles ==
    [id : {None} \cup {Some(a) : a \in StoredIdArrays},
     cluster_labels : {None} \cup {Some(a) : a \in ValueArrays},
     cluster_titles : {None} \cup {Some(a) : a \in ValueArrays},
     umap2d_x : {None} \cup {Some(a) : a \in ValueArrays},
     umap2d_y : {None} \cup {Some(a) : a \in ValueArrays}]

\* the columns of a Parquet table have one length
OneLength(bundle) ==
    \A k1, k2 \in REQUIRED_FEATURES_COLUMNS :
        (bundle[k1] # None /\ bundle[k2] # None) =>
            Len(Val(bundle[k1])) = Len(Val(bundle[k2]))

FeatureFiles ==
    {f \in [exists : BOOLEAN,
            ext : {".pkl", ".parquet", ".bin"},
            format : {"pickle", "parquet", "garbage"},
            bundle : Bundles] :
        f.format = "parquet" => OneLength(f.bundle)}

\* which reader opens the file: the reader its extension names, or for
\* another extension pickle and then Parquet; "none" when the readers fail
ReaderThatLoads(file) ==
    IF file.ext = ".pkl" THEN (IF file.format = "pickle" THEN "pickle" ELSE "none")
    ELSE IF file.ext = ".parquet"
    THEN (IF file.format = "parquet" THEN "parquet" ELSE "none")
    ELSE IF file.format \in {"pickle", "parquet"} THEN file.format ELSE "none"

\* the lengths of the arrays, among cluster_labels, umap2d_x and umap2d_y,
\* that are present and not empty
SynthesisLengths(bundle) ==
    {Len(Val(bundle[k])) :
        k \in {k \in {"cluster_labels", "umap2d_x", "umap2d_y"} :
                 bundle[k] # None /\ Len(Val(bundle[k])) > 0}}

MaxOf(S) == CHOOSE n \in S : \A m \in S : m <= n

\* the slip of counting the identifiers from 1
synthetic_ids_from_one(n_records) == [i \in 1..n_records |-> orion_id(i)]

\* [f"orion_{i:06d}" for i in range(n_records)]
synthetic_ids(n_records) == [i \in 1..n_records |-> orion_id(i - 1)]

LoadResult(outcome, missing, bundle) ==
    [outcome |-> outcome, missing |-> missing, features |-> bundle]

\* the slip of naming the first missing column only
missing_columns_first_only(bundle) ==
    LET missing == {col \in REQUIRED_FEATURES_COLUMNS : bundle[col] = None}
    IN  IF missing = {} THEN {} ELSE {CHOOSE col \in missing : TRUE}

\* missing_columns of _load_features
missing_columns(bundle) ==
    {col \in REQUIRED_FEATURES_COLUMNS : bundle[col] = None}

\* _load_features
_load_features(file) ==
    IF ~file.exists THEN LoadResult("FileNotFoundError", {}, None)
    ELSE IF ReaderThatLoads(file) = "none" THEN LoadResult("Exception", {}, None)
    ELSE LET loaded == file.bundle
             lengths == SynthesisLengths(loaded)
         IN  IF loaded.id = None /\ lengths = {}
             THEN LoadResult("ValueError: No data arrays found", {}, None)
             ELSE LET with_ids ==
                          IF loaded.id = None
                          THEN [loaded EXCEPT !.id = Some(synthetic_ids(MaxOf(lengths)))]
                          ELSE loaded
                  IN  IF missing_columns(with_ids) # {}
                      THEN LoadResult("ValueError: Missing required columns",
                                      missing_columns(with_ids), None)
                      ELSE LoadResult("returned", {}, Some(with_ids))

LoadFeaturesInit ==
    /\ features_file \in FeatureFiles
    /\ loaded_features = None

LoadFeaturesIdle ==
    /\ features_file = [exists |-> FALSE, ext |-> ".pkl", format |-> "pickle",
                        bundle |-> [k \in REQUIRED_FEATURES_COLUMNS |-> None]]
    /\ loaded_features = None

LoadFeaturesCall ==
    /\ loaded_features = None
    /\ loaded_features' = Some(_load_features(features_file))
    /\ UNCHANGED features_file

-----------------------------------------------------------------------------
(* data_loader_fixed._load_dataset                                         *)
(*                                                                         *)
(* A path is a sequence of pieces: a name and the extensions after it.     *)

Extensions == {".parquet", ".xlsx", ".csv"}

DatasetPaths ==
    {<<"dataset">> \o exts :
        exts \in UNION {[1..n -> Extensions] : n \in 0..MaxExtensions}}

\* str.endswith
endswith(path, suffix) == path[Len(path)] = suffix

\* the slip of replacing the last extension only
replace_last(path, old, new) ==
    IF path[Len(path)] = old THEN [path EXCEPT ![Len(path)] = new] ELSE path

\* str.replace: every occurrence is replaced
replace(path, old, new) ==
    [i \in 1..Len(path) |-> IF path[i] = old THEN new ELSE path[i]]

\* what a path holds: nothing, or a file in one of these formats
FileStates == {"absent", "parquet", "xlsx", "garbage"}

\* the paths _load_dataset can look at, and the sibling of the given path
PathsOfInterest(path) ==
    {path, replace(path, ".parquet", ".xlsx"),
     IF Len(path) = 1 THEN path \o <<".xlsx">>
     ELSE [path EXCEPT ![Len(path)] = ".xlsx"]}

\* os.path.exists
exists(files, path) == files[path] # "absent"

\* pd.read_parquet and pd.read_excel succeed on a file of their format
ReadsAs(files, path, format) == files[path] = format

DatasetResult(outcome, path) == [outcome |-> outcome, read_from |-> path]

\* _load_dataset
_load_dataset(path, files) ==
    LET xlsx_file == replace(path, ".parquet", ".xlsx")
    IN  IF /\ endswith(path, ".parquet")
           /\ exists(files, path)
           /\ ReadsAs(files, path, "parquet")
        THEN DatasetResult("returned", Some(path))
        ELSE IF exists(files, xlsx_file)
        THEN (IF ReadsAs(files, xlsx_file, "xlsx")
              THEN DatasetResult("returned", Some(xlsx_file))
              ELSE DatasetResult("Exception", Some(xlsx_file)))
        ELSE IF endswith(path, ".xlsx") /\ exists(files, path)
        THEN (IF ReadsAs(files, path, "xlsx")
              THEN DatasetResult("returned", Some(path))
              ELSE DatasetResult("Exception", Some(path)))
        ELSE DatasetResult("FileNotFoundError", None)

LoadDatasetInit ==
    /\ dataset_file \in DatasetPaths
    /\ dataset_files \in [PathsOfInterest(dataset_file) -> FileStates]
    /\ loaded_dataset = None

LoadDatasetIdle ==
    /\ dataset_file = <<"dataset">>
    /\ dataset_files = [p \in {<<"dataset">>} |-> "absent"]
    /\ loaded_dataset = None

LoadDatasetCall ==
    /\ loaded_dataset = None
    /\ loaded_dataset' = Some(_load_dataset(dataset_file, dataset_files))
    /\ UNCHANGED <<dataset_file, dataset_files>>

-----------------------------------------------------------------------------
(* data_loader_fixed._derive_id_from_content and _ensure_id_column         *)
(*                                                                         *)
(* A dataset is its set of columns and its rows in order; a row maps each  *)
(* column to a cell; a cell and an identifier are strings, sequences of    *)
(* pieces.  The index of a loaded dataset numbers its rows from 0.         *)

IdColumnNames == {"id", "ID", "Id", "iD"}

ContentColumnNames ==
    {"title", "Title", "type", "Type", "Driving Force", "steep", "STEEP",
     "source", "Source"}

ColumnNames == IdColumnNames \cup ContentColumnNames \cup {"description"}

Cells == {<<"a">>, <<"b">>}

DataFrames ==
    UNION {[columns : {cols}, rows : [1..n -> [cols -> Cells]]] :
             cols \in {c \in SUBSET ColumnNames : Cardinality(c) \in 1..MaxColumns},
             n \in 1..MaxDatasetRows}

\* str of an index label
DigitChars == <<"0", "1", "2", "3", "4", "5", "6", "7", "8", "9">>

RECURSIVE str_of_int(_)
str_of_int(i) ==
    IF i < 10 THEN <<DigitChars[i + 1]>>
    ELSE Append(str_of_int(i \div 10), DigitChars[(i % 10) + 1])

\* the cell of the first of these columns that the row has, if it has one
FirstOf(row, names) ==
    LET present == {k \in 1..Len(names) : names[k] \in DOMAIN row}
    IN  IF present = {} THEN <<>>
        ELSE <<row[names[CHOOSE k \in present : \A m \in present : k <= m]]>>

\* '|'.join
RECURSIVE join(_)
join(parts) ==
    IF Len(parts) = 0 THEN <<>>
    ELSE IF Len(parts) = 1 THEN parts[1]
    ELSE parts[1] \o <<"|">> \o join(Tail(parts))

\* hashlib.sha256(...).hexdigest()[:16]: one digest for one string
sha256_hexdigest_16(content_string) == <<"sha256:">> \o content_string

\* _derive_id_from_content, for the row with this index label
_derive_id_from_content(row, name) ==
    LET found == FirstOf(row, <<"title", "Title">>)
                   \o FirstOf(row, <<"type", "Type", "Driving Force">>)
                   \o FirstOf(row, <<"steep", "STEEP">>)
                   \o FirstOf(row, <<"source", "Source">>)
        content_parts == IF found = <<>> THEN <<str_of_int(name)>> ELSE found
    IN  sha256_hexdigest_16(join(content_parts))

\* df with the column 'id' set to these values
WithIdColumn(frame, ids) ==
    [columns |-> frame.columns \cup {"id"},
     rows |-> [i \in 1..Len(frame.rows) |->
                 [c \in frame.columns \cup {"id"} |->
                     IF c = "id" THEN ids[i] ELSE frame.rows[i][c]]]]

\* _ensure_id_column
_ensure_id_column(frame) ==
    IF "id" \in frame.columns THEN frame
    ELSE IF "ID" \in frame.columns
    THEN WithIdColumn(frame, [i \in 1..Len(frame.rows) |-> frame.rows[i]["ID"]])
    ELSE WithIdColumn(frame, [i \in 1..Len(frame.rows) |->
                                 _derive_id_from_content(frame.rows[i], i - 1)])

EnsureIdInit ==
    /\ df \in DataFrames
    /\ ensured_df = None
    /\ earlier_df = None

EnsureIdIdle ==
    /\ df = [columns |-> {}, rows |-> <<>>]
    /\ ensured_df = None
    /\ earlier_df = None

\* _load_and_merge_data calls _ensure_id_column on the loaded dataset
EnsureIdColumn ==
    /\ ensured_df = None
    /\ ensured_df' = Some(_ensure_id_column(df))
    /\ UNCHANGED <<df, earlier_df>>

\* the file is written again with two rows exchanged, and loaded again
MoveRows ==
    /\ ensured_df # None
    /\ earlier_df = None
    /\ \E i, j \in 1..Len(df.rows) :
          /\ i < j
          /\ df' = [df EXCEPT !.rows = [@ EXCEPT ![i] = df.rows[j],
                                               ![j] = df.rows[i]]]
    /\ earlier_df' = ensured_df
    /\ ensured_df' = None

-----------------------------------------------------------------------------
(* data_loader_fixed: _load_and_merge_data, its callers and clear_cache    *)
(*                                                                         *)
(* A dataset file holds a dataset of the merge model; a features file      *)
(* holds the keys of its bundle and the bundle of the merge model.         *)

\* REQUIRED_FEATURES_COLUMNS + OPTIONAL_FEATURES_COLUMNS
FEATURES_COLUMNS_IN_ORDER ==
    <<"id", "cluster_labels", "cluster_titles", "umap2d_x", "umap2d_y",
      "tsne_x", "tsne_y", "tsne_z", "umap3d_x", "umap3d_y", "umap3d_z">>

\* the datasets a dataset file may hold: identifier 1, or identifiers 1 and 2
DatasetFileContents ==
    {[i \in MergeIds |-> IF i <= n THEN 1 ELSE 0] : n \in 1..MaxMergeIds}

\* the bundle with one row, labelled or not, for each of these identifiers
BundleOf(ids, label, titles) ==
    [rows |-> [k \in FeatureRowKinds |->
                 IF k.id \in ids /\ k.cluster_labels = label THEN 1 ELSE 0],
     cluster_titles |-> titles, scalars |-> FALSE]

\* the features files: every key or one key short, optional columns or none,
\* every identifier or the first only, labelled or not, titles a list or a dict
FeaturesFileContents ==
    {[keys |-> keys, data |-> BundleOf(ids, label, titles)] :
        keys \in {REQUIRED_FEATURES_COLUMNS,
                  REQUIRED_FEATURES_COLUMNS \cup {"tsne_x"},
                  REQUIRED_FEATURES_COLUMNS \ {"cluster_labels"}},
        ids \in {{1}, MergeIds},
        label \in ClusterLabelValues,
        titles \in {"list", "dict"}}

StrictEnvValues == {None, Some("false"), Some("TRUE"), Some("yes")}

\* get_file_paths: strict_mode
get_file_paths(env) == lower(os_getenv(env, "true")) \in {"true", "1", "yes"}

\* _load_dataset and _load_features on the files of the disk
LoadOf(file, schema_ok) ==
    IF file = None THEN [outcome |-> "FileNotFoundError", value |-> None]
    ELSE IF ~schema_ok THEN [outcome |-> "ValueError", value |-> None]
    ELSE [outcome |-> "returned", value |-> file]

\* [col for col in (REQUIRED + OPTIONAL) if col in _cached_merged_df.columns]
columns_present(bundle) ==
    SelectSeq(FEATURES_COLUMNS_IN_ORDER, LAMBDA col : col \in bundle.keys)

Caches(ds, f, m, cols) ==
    [dataset |-> ds, features |-> f, merged |-> m, columns |-> cols]

CallResult(outcome, m, cols, reads, merges, caches) ==
    [outcome |-> outcome, merged |-> m, columns |-> cols,
     reads |-> reads, merges |-> merges, caches |-> caches]

\* the slip of loading again at every call
_load_and_merge_data_uncached(c, d, env) ==
    LET l == LoadOf(d.dataset, TRUE)
        f == LoadOf(d.features, d.features # None
                       /\ REQUIRED_FEATURES_COLUMNS \subseteq Val(d.features).keys)
    IN  IF l.outcome = "returned" /\ f.outcome = "returned"
        THEN LET r == MergeFeaturesWithDataset(Val(l.value), Val(f.value).data,
                                               get_file_paths(env))
                 cols == Some(columns_present(Val(f.value)))
             IN  IF r.outcome = "returned"
                 THEN CallResult("returned", r.merged, cols,
                                 {"dataset", "features"}, 1,
                                 Caches(l.value, f.value, r.merged, cols))
                 ELSE CallResult(r.outcome, None, None, {"dataset", "features"}, 1, c)
        ELSE CallResult("FileNotFoundError", None, None, {"dataset"}, 0, c)

\* _load_and_merge_data: how it ends, what it returns, the files it reads,
\* the merges it makes, and the caches it leaves
_load_and_merge_data(c, d, env) ==
    IF c.merged # None /\ c.columns # None
    THEN CallResult("returned", c.merged, c.columns, {}, 0, c)
    ELSE LET strict == get_file_paths(env)
             l == IF c.dataset = None THEN LoadOf(d.dataset, TRUE)
                  ELSE [outcome |-> "returned", value |-> c.dataset]
             dreads == IF c.dataset = None THEN {"dataset"} ELSE {}
         IN  IF l.outcome # "returned"
             THEN CallResult(l.outcome, None, None, dreads, 0, c)
             ELSE LET c1 == [c EXCEPT !.dataset = l.value]
                      f == IF c.features = None
                           THEN LoadOf(d.features, d.features # None /\
                                  REQUIRED_FEATURES_COLUMNS \subseteq Val(d.features).keys)
                           ELSE [outcome |-> "returned", value |-> c.features]
                      freads == IF c.features = None THEN {"features"} ELSE {}
                  IN  IF f.outcome # "returned"
                      THEN CallResult(f.outcome, None, None, dreads \cup freads, 0, c1)
                      ELSE LET c2 == [c1 EXCEPT !.features = f.value]
                               r == MergeFeaturesWithDataset(
                                        Val(l.value), Val(f.value).data, strict)
                               cols == Some(columns_present(Val(f.value)))
                           IN  IF r.outcome # "returned"
                               THEN CallResult(r.outcome, None, None,
                                               dreads \cup freads, 1, c2)
                               ELSE CallResult("returned", r.merged, cols,
                                               dreads \cup freads, 1,
                                               [c2 EXCEPT !.merged = r.merged,
                                                          !.columns = cols])

CurrentCaches ==
    Caches(_cached_dataset, _cached_features, _cached_merged_df,
           _features_columns_present)

CacheInit ==
    /\ disk \in [dataset : {None} \cup {Some(d) : d \in DatasetFileContents},
                 features : {None} \cup {Some(f) : f \in FeaturesFileContents}]
    /\ strict_env \in StrictEnvValues
    /\ _cached_dataset = None
    /\ _cached_features = None
    /\ _cached_merged_df = None
    /\ _features_columns_present = None
    /\ cache_call = None

CacheIdle ==
    /\ disk = [dataset |-> None, features |-> None]
    /\ strict_env = None
    /\ _cached_dataset = None
    /\ _cached_features = None
    /\ _cached_merged_df = None
    /\ _features_columns_present = None
    /\ cache_call = None

\* the caches after a call, and the record of the call
AfterCall(op, r) ==
    /\ _cached_dataset' = r.caches.dataset
    /\ _cached_features' = r.caches.features
    /\ _cached_merged_df' = r.caches.merged
    /\ _features_columns_present' = r.caches.columns
    /\ cache_call' = Some([op |-> op, outcome |-> r.outcome,
                           returned |-> IF op = "get_merged_dataframe"
                                        THEN r.merged ELSE r.columns,
                           reads |-> r.reads, merges |-> r.merges,
                           strict |-> get_file_paths(strict_env)])
    /\ UNCHANGED <<disk, strict_env>>

get_merged_dataframe ==
    AfterCall("get_merged_dataframe",
              _load_and_merge_data(CurrentCaches, disk, strict_env))

get_features_columns_present ==
    AfterCall("get_features_columns_present",
              _load_and_merge_data(CurrentCaches, disk, strict_env))

clear_cache ==
    /\ _cached_dataset' = None
    /\ _cached_features' = None
    /\ _cached_merged_df' = None
    /\ _features_columns_present' = None
    /\ cache_call' = None
    /\ UNCHANGED <<disk, strict_env>>

\* a file is written, replaced or removed outside the process
DiskChanges ==
    /\ \/ \E d \in {None} \cup {Some(d) : d \in DatasetFileContents} :
             disk' = [disk EXCEPT !.dataset = d]
       \/ \E f \in {None} \cup {Some(f) : f \in FeaturesFileContents} :
             disk' = [disk EXCEPT !.features = f]
    /\ disk' # disk
    /\ cache_call' = None
    /\ UNCHANGED <<strict_env, _cached_dataset, _cached_features,
                   _cached_merged_df, _features_columns_present>>

\* the configuration STRICT_FEATURES is changed
StrictEnvChanges ==
    /\ \E v \in StrictEnvValues : v # strict_env /\ strict_env' = v
    /\ cache_call' = None
    /\ UNCHANGED <<disk, _cached_dataset, _cached_features,
                   _cached_merged_df, _features_columns_present>>

-----------------------------------------------------------------------------
(* data_loader.ORIONDataLoader: the merge by direct correspondence         *)
(*                                                                         *)
(* A dataset is its number of rows; a bundle is its keys and the length of *)
(* its arrays.  A column of the merged table gives each row the ordinal of *)
(* the feature it received, None where it received none.                   *)

\* row counts: none, few, and many, one apart
DirectSizes == {0, 1, 2, Big - 1, Big}

LoaderBundles ==
    [keys : SUBSET {"cluster_labels", "cluster_titles", "umap2d_x"},
     size : DirectSizes]

Outcome(outcome, value) == [outcome |-> outcome, value |-> value]

\* ORIONDataLoader.load_dataset: the outcome and the loader it leaves
load_dataset(self, d) ==
    IF self._dataset # None
    THEN [result |-> Outcome("returned", self._dataset), self |-> self]
    ELSE IF d.dataset = None
    THEN [result |-> Outcome("FileNotFoundError", None), self |-> self]
    ELSE [result |-> Outcome("returned", d.dataset),
          self |-> [self EXCEPT !._dataset = d.dataset]]

\* ORIONDataLoader.load_features: self._features is assigned before the
\* required columns are looked at
load_features(self, d) ==
    IF self._features # None
    THEN [result |-> Outcome("returned", self._features), self |-> self]
    ELSE IF d.features = None
    THEN [result |-> Outcome("FileNotFoundError", None), self |-> self]
    ELSE IF "cluster_labels" \notin Val(d.features).keys /\ self.strict_mode
    THEN [result |-> Outcome("ValueError", None),
          self |-> [self EXCEPT !._features = d.features]]
    ELSE [result |-> Outcome("returned", d.features),
          self |-> [self EXCEPT !._features = d.features]]

\* ORIONDataLoader.validate_coverage: the coverage, or the error raised
validate_coverage(strict, dataset_size, bundle) ==
    LET features_size == IF "cluster_labels" \in bundle.keys THEN bundle.size ELSE 0
        matched == Min(dataset_size, features_size)
        cov == IF dataset_size = features_size THEN Pct(100, 1)
               ELSE IF dataset_size > 0 THEN Pct(matched * 100, dataset_size)
               ELSE Pct(0, 1)
    IN  IF strict /\ PctLess(cov, MIN_COVERAGE_PERCENT)
        THEN Outcome("ValueError", None)
        ELSE Outcome("returned", Some(cov))

\* a column filled by direct correspondence: row i gets feature i
DirectColumn(rows, size) ==
    [i \in 1..rows |-> IF i <= size THEN Some(i) ELSE None]

\* the table merge_data builds
MergedTable(rows, bundle) ==
    [rows |-> rows,
     Cluster |-> IF "cluster_labels" \in bundle.keys
                 THEN Some(DirectColumn(rows, bundle.size)) ELSE None,
     umap2d_x |-> IF "umap2d_x" \in bundle.keys
                  THEN Some(DirectColumn(rows, bundle.size)) ELSE None]

\* ORIONDataLoader.merge_data: the outcome and the loader it leaves
merge_data(self, d) ==
    IF self._merged_data # None
    THEN [result |-> Outcome("returned", self._merged_data), self |-> self]
    ELSE LET l == load_dataset(self, d)
         IN  IF l.result.outcome # "returned" THEN l
             ELSE LET f == load_features(l.self, d)
                  IN  IF f.result.outcome # "returned" THEN f
                      ELSE LET rows == Val(l.result.value)
                               bundle == Val(f.result.value)
                               v == validate_coverage(self.strict_mode, rows, bundle)
                               merged == MergedTable(rows, bundle)
                           IN  IF v.outcome # "returned"
                               THEN [result |-> v, self |-> f.self]
                               ELSE IF /\ "cluster_titles" \in bundle.keys
                                       /\ merged.Cluster = None
                               THEN \* merged['Cluster'].map(cluster_titles)
                                    [result |-> Outcome("KeyError", None),
                                     self |-> f.self]
                               ELSE IF merged.Cluster = None
                               THEN \* merged['Cluster'].notna(), when logging
                                    [result |-> Outcome("KeyError", None),
                                     self |-> [f.self EXCEPT
                                                 !._merged_data = Some(merged)]]
                               ELSE [result |-> Outcome("returned", Some(merged)),
                                     self |-> [f.self EXCEPT
                                                 !._merged_data = Some(merged)]]

LoaderInit ==
    /\ loader \in [strict_mode : BOOLEAN, _dataset : {None},
                   _features : {None}, _merged_data : {None}]
    /\ loader_disk \in [dataset : {None} \cup {Some(n) : n \in DirectSizes},
                        features : {None} \cup {Some(b) : b \in LoaderBundles}]
    /\ loader_call = None

LoaderIdle ==
    /\ loader = [strict_mode |-> FALSE, _dataset |-> None,
                 _features |-> None, _merged_data |-> None]
    /\ loader_disk = [dataset |-> None, features |-> None]
    /\ loader_call = None

LoaderCalls(method, r) ==
    /\ loader' = r.self
    /\ loader_call' = Some([method |-> method, outcome |-> r.result.outcome,
                            value |-> r.result.value])
    /\ UNCHANGED loader_disk

LoadFeaturesMethod == LoaderCalls("load_features", load_features(loader, loader_disk))

MergeDataMethod == LoaderCalls("merge_data", merge_data(loader, loader_disk))

-----------------------------------------------------------------------------
(* orion_fixed_bridge.main                                                 *)
(*                                                                         *)
(* What the loaders, the merge and the manifest do is modelled above; here *)
(* a run meets their outcome: the first step that raises, if one does.     *)

\* the steps of the two modes that can raise, and what they raise
BridgeFailures ==
    {[step |-> "_load_features", error |-> "FileNotFoundError"],
     [step |-> "_load_features", error |-> "ValueError"],
     [step |-> "get_merged_dataframe", error |-> "FileNotFoundError"],
     [step |-> "get_merged_dataframe", error |-> "StartupIntegrityError"],
     [step |-> "generate_or_validate_manifest", error |-> "StartupIntegrityError"]}

BridgeWorlds ==
    [failure : {None} \cup {Some(f) : f \in BridgeFailures},
     n_records : {0, 1},
     n_clusters : {0, 1},
     output_writable : BOOLEAN]

Raised(error) == [raised |-> TRUE, value |-> error]
Returned(value) == [raised |-> FALSE, value |-> value]

\* the error of the world, when the steps this mode takes include its step
FailureAmong(world, steps) ==
    IF world.failure # None /\ Val(world.failure).step \in steps
    THEN world.failure ELSE None

\* load_fixed_clusters
load_fixed_clusters(world, as_script) ==
    LET failure == FailureAmong(world, {"_load_features"})
    IN  IF failure # None THEN Raised(Val(failure).error)
        ELSE IF as_script
        THEN \* from .cluster_mapping import get_cluster_name
             Raised("ImportError")
        ELSE IF world.n_records = 0 THEN Raised("No records found in features data")
        ELSE IF world.n_clusters = 0 THEN Raised("No clusters found in features data")
        ELSE Returned([kind |-> "clusters", integrity_status |-> "FEATURES_ONLY",
                       error |-> None])

\* get_integrity_status: every exception becomes a status that is returned
get_integrity_status(world) ==
    LET failure == FailureAmong(world, {"get_merged_dataframe", "_load_features",
                                        "generate_or_validate_manifest"})
    IN  IF failure # None
        THEN Returned([kind |-> "integrity", integrity_status |-> "ERROR",
                       error |-> Some(Val(failure).error)])
        ELSE Returned([kind |-> "integrity", integrity_status |-> "PASS",
                       error |-> None])

ErrorObject(error, mode) == [success |-> FALSE, error |-> error, mode |-> mode]

\* main: the output file (None when not written), standard output, exit status
bridge_main(args, world) ==
    LET result == IF args.mode = "clusters"
                  THEN load_fixed_clusters(world, args.as_script)
                  ELSE get_integrity_status(world)
    IN  IF ~result.raised /\ world.output_writable
        THEN [output_file |-> Some(result.value),
              stdout |-> [success |-> TRUE],
              exit_status |-> 0]
        ELSE LET error_result ==
                     ErrorObject(IF result.raised THEN result.value ELSE "OSError",
                                 args.mode)
             IN  [output_file |-> IF world.output_writable
                                  THEN Some(error_result) ELSE None,
                  stdout |-> error_result,
                  exit_status |-> 1]

BridgeInit ==
    /\ bridge_args \in [mode : {"clusters", "integrity"}, as_script : BOOLEAN]
    /\ bridge_world \in BridgeWorlds
    /\ bridge_run = None

BridgeIdle ==
    /\ bridge_args = [mode |-> "clusters", as_script |-> TRUE]
    /\ bridge_world = [failure |-> None, n_records |-> 0, n_clusters |-> 0,
                       output_writable |-> FALSE]
    /\ bridge_run = None

BridgeMain ==
    /\ bridge_run = None
    /\ bridge_run' = Some(bridge_main(bridge_args, bridge_world))
    /\ UNCHANGED <<bridge_args, bridge_world>>

-----------------------------------------------------------------------------
(* parity_checker.perform_comprehensive_parity_check                       *)
(*                                                                         *)
(* check_endpoint_parity is modelled above; here a scenario meets what its *)
(* two endpoints answer: equal figures, different figures, or no answer.   *)

Answers == {"equal", "differ", "unavailable"}

Scenario(name, endpoint, filtered) ==
    [name |-> name, endpoint |-> endpoint, filtered |-> filtered]

\* test_scenarios, extended when include_filters
scenarios_for(include_filters) ==
    <<Scenario("radar_no_filters", "radar", FALSE),
      Scenario("3d_no_filters", "3d", FALSE)>>
    \o (IF include_filters
        THEN <<Scenario("radar_with_filters", "radar", TRUE),
               Scenario("3d_with_filters", "3d", TRUE)>>
        ELSE <<>>)

\* await check_endpoint_parity(endpoint, filters), on these answers
check_of_scenario(answer, strict) ==
    IF answer = "unavailable" THEN Raised("ParityCheckError")
    ELSE IF answer = "differ" /\ strict THEN Raised("ParityMismatchError")
    ELSE Returned([parity_ok |-> answer = "equal", error |-> None])

\* results['checks'][name] = entry
SetItem(dict, key, value) ==
    [k \in DOMAIN dict \cup {key} |-> IF k = key THEN value ELSE dict[k]]

\* the slip of leaving out the except clause: a check that raises leaves
\* no trace
loop_body_without_except(r, failed, name, check) ==
    IF check.raised THEN [results |-> r, failed_checks |-> failed]
    ELSE [results |-> [r EXCEPT !.checks = SetItem(@, name, check.value),
                                !.overall_parity_ok = @ /\ check.value.parity_ok],
          failed_checks |-> IF check.value.parity_ok THEN failed ELSE failed + 1]

\* one turn of the loop: the try and the except clause
loop_body(r, failed, name, check) ==
    IF check.raised
    THEN [results |-> [r EXCEPT !.checks = SetItem(@, name,
                                    [parity_ok |-> FALSE, error |-> Some(check.value)]),
                                !.overall_parity_ok = FALSE,
                                !.errors = Append(@, <<name, check.value>>)],
          failed_checks |-> failed + 1]
    ELSE [results |-> [r EXCEPT !.checks = SetItem(@, name, check.value),
                                !.overall_parity_ok = @ /\ check.value.parity_ok],
          failed_checks |-> IF check.value.parity_ok THEN failed ELSE failed + 1]

\* results['summary']: the numbers it is formatted from
summary_of(overall, failed, total) ==
    IF overall THEN [failed |-> 0, total |-> total]
    ELSE [failed |-> failed, total |-> total]

NoResults ==
    [overall_parity_ok |-> TRUE, strict_mode |-> FALSE, checks |-> <<>>,
     summary |-> None, errors |-> <<>>]

ComprehensiveInit ==
    /\ test_scenarios = <<>>
    /\ scenario_pos = 0
    /\ pc_results = NoResults
    /\ failed_checks = 0
    /\ ran = <<>>
    /\ pc_strict \in BOOLEAN
    /\ pc_returned = FALSE

ComprehensiveIdle ==
    /\ test_scenarios = <<>>
    /\ scenario_pos = 0
    /\ pc_results = NoResults
    /\ failed_checks = 0
    /\ ran = <<>>
    /\ pc_strict = FALSE
    /\ pc_returned = FALSE

\* the call, up to the loop
ComprehensiveStart(include_filters) ==
    /\ scenario_pos = 0
    /\ test_scenarios' = scenarios_for(include_filters)
    /\ pc_results' = [NoResults EXCEPT !.strict_mode = pc_strict]
    /\ scenario_pos' = 1
    /\ UNCHANGED <<failed_checks, ran, pc_strict, pc_returned>>

\* one turn of the loop
ComprehensiveScenario(answer) ==
    /\ scenario_pos \in 1..Len(test_scenarios)
    /\ LET scenario == test_scenarios[scenario_pos]
           after == loop_body(pc_results, failed_checks, scenario.name,
                              check_of_scenario(answer, pc_strict))
       IN  /\ pc_results' = after.results
           /\ failed_checks' = after.failed_checks
           /\ ran' = Append(ran, [name |-> scenario.name, answer |-> answer])
    /\ scenario_pos' = scenario_pos + 1
    /\ UNCHANGED <<test_scenarios, pc_strict, pc_returned>>

\* after the loop: the summary, and the return
ComprehensiveReturn ==
    /\ scenario_pos = Len(test_scenarios) + 1
    /\ ~pc_returned
    /\ pc_results' = [pc_results EXCEPT !.summary =
                         Some(summary_of(pc_results.overall_parity_ok, failed_checks,
                                      Len(test_scenarios)))]
    /\ pc_returned' = TRUE
    /\ UNCHANGED <<test_scenarios, scenario_pos, failed_checks, ran, pc_strict>>

-----------------------------------------------------------------------------
(* direct_mapping_cluster_applier.main                                     *)
(*                                                                         *)
(* The database is modelled by its committed content: the driving forces   *)
(* (title, cluster_id, cluster_label), the rows of clusters and the next   *)
(* value of the id sequence of clusters.  What main writes before          *)
(* conn.commit() belongs to its transaction and is lost with it.  A        *)
(* cluster name is a tuple: a title of the bundle, or ("Cluster", n).      *)

ForceIds == {1, 2}
ForceTitles == [f \in ForceIds |-> IF f = 1 THEN "t1" ELSE "t2"]
FileTitles == {"t1", "t2", "t3", NaN}
ClusterIds == 0..MaxClusterId
ClusterTitleNames == {"A", "B"}

\* what the database may do to the run: nothing, refuse the connection, or
\* fail at the INSERT or at the UPDATE
DbFaults == {"none", "connect", "insert", "update"}

\* the database before the run: force 1 is in the cluster row 7
PreviousDb ==
    [forces |-> [f \in ForceIds |->
                    [title |-> ForceTitles[f],
                     cluster_id |-> IF f = 1 THEN Some(7) ELSE None,
                     cluster_label |-> IF f = 1 THEN Some(<<"old">>) ELSE None]],
     clusters |-> {[id |-> 7, label |-> <<"old">>, force_ids |-> <<1>>,
                    method |-> "exact_batch", size |-> 1]},
     next_id |-> 8]

\* dict(cursor.fetchall()) of SELECT title, id FROM driving_forces
db_forces(db) ==
    [t \in {db.forces[f].title : f \in ForceIds} |->
        CHOOSE f \in ForceIds : db.forces[f].title = t]

\* cluster_titles.get(cluster_id, f"Cluster {cluster_id}")
cluster_name_of(cluster_titles, cluster_id) ==
    IF cluster_titles[cluster_id] # None
    THEN <<Val(cluster_titles[cluster_id])>>
    ELSE <<"Cluster", cluster_id>>

\* the rows of the loop that pass the test of line 98, in file order
matched_rows(input, db) ==
    LET rows == [i \in 1..Len(input.titles) |->
                    [title |-> input.titles[i], cluster |-> input.cluster_labels[i]]]
        passes(row) == /\ row.title # NaN
                       /\ row.cluster # None
                       /\ row.title \in DOMAIN db_forces(db)
    IN  SelectSeq(rows, passes)

\* cluster_groups: cluster id -> the force ids appended for it
cluster_groups_of(input, db) ==
    LET m == matched_rows(input, db)
        of(c) == SelectSeq(m, LAMBDA row : Val(row.cluster) = c)
    IN  [c \in {Val(m[i].cluster) : i \in 1..Len(m)} |->
            [i \in 1..Len(of(c)) |-> db_forces(db)[of(c)[i].title]]]

\* force_updates: (cluster_name, force_id) of every matched row
force_updates_of(input, db) ==
    LET m == matched_rows(input, db)
    IN  [i \in 1..Len(m) |->
            [cluster_label |-> cluster_name_of(input.cluster_titles, Val(m[i].cluster)),
             force_id |-> db_forces(db)[m[i].title]]]

\* the id RETURNING gives the row of cluster_id: the rows are inserted in
\* the order of sorted(cluster_groups.items())
cluster_db_id_of(groups, next_id, cluster_id) ==
    next_id + Cardinality({c \in DOMAIN groups : c < cluster_id})

\* the rows inserted into clusters
inserted_clusters(input, groups, next_id) ==
    {[id |-> cluster_db_id_of(groups, next_id, c),
      label |-> cluster_name_of(input.cluster_titles, c),
      force_ids |-> groups[c],
      method |-> "direct_correspondence",
      size |-> Len(groups[c])] : c \in DOMAIN groups}

\* cluster_id_map[cluster_name] = cluster_db_id: the last assignment to a
\* name stays
cluster_id_map_of(input, groups, next_id) ==
    LET name(c) == cluster_name_of(input.cluster_titles, c)
        last(n) == CHOOSE c \in DOMAIN groups :
                      /\ name(c) = n
                      /\ \A d \in DOMAIN groups : name(d) = n => d <= c
    IN  [n \in {name(c) : c \in DOMAIN groups} |->
            cluster_db_id_of(groups, next_id, last(n))]

\* batch_updates: (cluster_db_id, cluster_label, force_id)
batch_updates_of(input, db) ==
    LET updates == force_updates_of(input, db)
        id_map == cluster_id_map_of(input, cluster_groups_of(input, db), db.next_id)
    IN  [i \in 1..Len(updates) |->
            [cluster_id |-> id_map[updates[i].cluster_label],
             cluster_label |-> updates[i].cluster_label,
             force_id |-> updates[i].force_id]]

\* the driving forces after UPDATE ... SET cluster_id = NULL and
\* UPDATE ... FROM (VALUES ...): a force named by several rows of VALUES
\* gets one of them
updated_forces(db, batch) ==
    LET named == {batch[i].force_id : i \in 1..Len(batch)}
        rows_of(f) == {i \in 1..Len(batch) : batch[i].force_id = f}
        picks == {p \in [named -> 1..Len(batch)] : \A f \in named : p[f] \in rows_of(f)}
    IN  {[f \in ForceIds |->
            IF f \in named
            THEN [title |-> db.forces[f].title,
                  cluster_id |-> Some(batch[p[f]].cluster_id),
                  cluster_label |-> Some(batch[p[f]].cluster_label)]
            ELSE [title |-> db.forces[f].title,
                  cluster_id |-> None, cluster_label |-> None]] : p \in picks}

Failed(db) == [returned |-> FALSE, committed |-> FALSE, batch_updates |-> <<>>, db |-> db]

\* main(): what it returns, what it sent and the database it leaves
applier_main(input, db) ==
    IF ~input.database_url THEN {Failed(db)}                        \* 25-27
    ELSE IF Len(input.titles) # Len(input.cluster_labels)
    THEN {Failed(db)}                                               \* 45-47
    ELSE IF input.fault = "connect" THEN {Failed(db)}               \* 57
    ELSE IF ~input.has_project THEN {Failed(db)}                    \* 62
    ELSE LET groups == cluster_groups_of(input, db)
             batch == batch_updates_of(input, db)
         IN  IF input.fault = "insert" /\ DOMAIN groups # {}
             THEN {Failed(db)}
             ELSE IF input.fault = "update" /\ Len(batch) > 0
             THEN {Failed([db EXCEPT !.next_id = @ + Cardinality(DOMAIN groups)])}
             ELSE {[returned |-> TRUE, committed |-> TRUE, batch_updates |-> batch,
                    db |-> [forces |-> forces,
                            clusters |-> inserted_clusters(input, groups, db.next_id),
                            next_id |-> db.next_id + Cardinality(DOMAIN groups)]] :
                     forces \in updated_forces(db, batch)}

ApplierInit ==
    /\ app_input \in
         {in \in [database_url : BOOLEAN,
                  has_project : BOOLEAN,
                  fault : DbFaults,
                  titles : SeqsUpTo(FileTitles, MaxApplierRows),
                  cluster_labels : SeqsUpTo({None} \cup {Some(c) : c \in ClusterIds},
                                            MaxApplierRows),
                  cluster_titles : [ClusterIds -> {None} \cup
                                        {Some(t) : t \in ClusterTitleNames}]] :
              \* one departure from the plain run at a time
              Cardinality({x \in {1, 2, 3} :
                             \/ x = 1 /\ ~in.database_url
                             \/ x = 2 /\ ~in.has_project
                             \/ x = 3 /\ in.fault # "none"}) <= 1}
    /\ app_db = PreviousDb
    /\ app_run = None

ApplierIdle ==
    /\ app_input = [database_url |-> TRUE, has_project |-> TRUE, fault |-> "none",
                    titles |-> <<>>, cluster_labels |-> <<>>,
                    cluster_titles |-> [c \in ClusterIds |-> None]]
    /\ app_db = PreviousDb
    /\ app_run = None

\* one run of the script
ApplierMain ==
    /\ app_run = None
    /\ \E r \in applier_main(app_input, app_db) :
         /\ app_run' = Some([returned |-> r.returned, committed |-> r.committed,
                             batch_updates |-> r.batch_updates])
         /\ app_db' = r.db
    /\ UNCHANGED app_input

-----------------------------------------------------------------------------
(* Specifications *)

CoverageInit ==
    /\ CovInit
    /\ MergeIdle
    /\ HashIdle
    /\ ManIdle
    /\ ParityIdle
    /\ EndpointIdle
    /\ LoadFeaturesIdle
    /\ LoadDatasetIdle
    /\ EnsureIdIdle
    /\ CacheIdle
    /\ LoaderIdle
    /\ BridgeIdle
    /\ ComprehensiveIdle
    /\ ApplierIdle
CoverageNext ==
    CoverageCall
    /\ UNCHANGED <<mergeVars, hashVars, manVars, parityVars, endpointVars, loadFeaturesVars, loadDatasetVars, ensureIdVars, cacheVars, loaderVars, bridgeVars, comprehensiveVars, applierVars>>
SpecCoverage == CoverageInit /\ [][CoverageNext]_vars

MergeSpecInit ==
    /\ MergeInit
    /\ CovIdle
    /\ HashIdle
    /\ ManIdle
    /\ ParityIdle
    /\ EndpointIdle
    /\ LoadFeaturesIdle
    /\ LoadDatasetIdle
    /\ EnsureIdIdle
    /\ CacheIdle
    /\ LoaderIdle
    /\ BridgeIdle
    /\ ComprehensiveIdle
    /\ ApplierIdle
MergeSpecNext ==
    MergeCall
    /\ UNCHANGED <<covVars, hashVars, manVars, parityVars, endpointVars, loadFeaturesVars, loadDatasetVars, ensureIdVars, cacheVars, loaderVars, bridgeVars, comprehensiveVars, applierVars>>
SpecMerge == MergeSpecInit /\ [][MergeSpecNext]_vars

HashSpecInit ==
    /\ HashInit
    /\ CovIdle
    /\ MergeIdle
    /\ ManIdle
    /\ ParityIdle
    /\ EndpointIdle
    /\ LoadFeaturesIdle
    /\ LoadDatasetIdle
    /\ EnsureIdIdle
    /\ CacheIdle
    /\ LoaderIdle
    /\ BridgeIdle
    /\ ComprehensiveIdle
    /\ ApplierIdle
HashSpecNext ==
    \/ \E p \in Paths : Sha256FileCall(p)
       /\ UNCHANGED <<covVars, mergeVars, manVars, parityVars, endpointVars, loadFeaturesVars, loadDatasetVars, ensureIdVars, cacheVars, loaderVars, bridgeVars, comprehensiveVars, applierVars>>
    \/ \E p \in Paths, c \in Contents : WriteFile(p, c)
       /\ UNCHANGED <<covVars, mergeVars, manVars, parityVars, endpointVars, loadFeaturesVars, loadDatasetVars, ensureIdVars, cacheVars, loaderVars, bridgeVars, comprehensiveVars, applierVars>>
    \/ \E p \in Paths : RemoveFile(p)
       /\ UNCHANGED <<covVars, mergeVars, manVars, parityVars, endpointVars, loadFeaturesVars, loadDatasetVars, ensureIdVars, cacheVars, loaderVars, bridgeVars, comprehensiveVars, applierVars>>
SpecHash == HashSpecInit /\ [][HashSpecNext]_vars

ManifestSpecInit ==
    /\ ManInit /\ ManFilesInit
    /\ CovIdle
    /\ MergeIdle
    /\ ParityIdle
    /\ EndpointIdle
    /\ LoadFeaturesIdle
    /\ LoadDatasetIdle
    /\ EnsureIdIdle
    /\ CacheIdle
    /\ LoaderIdle
    /\ BridgeIdle
    /\ ComprehensiveIdle
    /\ ApplierIdle
ManifestSpecNext ==
    \/ \E ddf \in IdColumns, fdata \in FeatureBundles, strict \in BOOLEAN :
          ManifestCall(ddf, fdata, strict)
       /\ UNCHANGED <<covVars, mergeVars, parityVars, endpointVars, loadFeaturesVars, loadDatasetVars, ensureIdVars, cacheVars, loaderVars, bridgeVars, comprehensiveVars, applierVars>>
    \/ \E p \in Paths, c \in FileVersions :
          DataFileChanges(p, c)
       /\ UNCHANGED <<covVars, mergeVars, parityVars, endpointVars, loadFeaturesVars, loadDatasetVars, ensureIdVars, cacheVars, loaderVars, bridgeVars, comprehensiveVars, applierVars>>
    \/ ManifestDamaged
       /\ UNCHANGED <<covVars, mergeVars, parityVars, endpointVars, loadFeaturesVars, loadDatasetVars, ensureIdVars, cacheVars, loaderVars, bridgeVars, comprehensiveVars, applierVars>>
    \/ clear_manifest
       /\ UNCHANGED <<covVars, mergeVars, parityVars, endpointVars, loadFeaturesVars, loadDatasetVars, ensureIdVars, cacheVars, loaderVars, bridgeVars, comprehensiveVars, applierVars>>
SpecManifest == ManifestSpecInit /\ [][ManifestSpecNext]_vars

ParitySpecInit ==
    /\ ParityInit
    /\ CovIdle
    /\ MergeIdle
    /\ HashIdle
    /\ ManIdle
    /\ EndpointIdle
    /\ LoadFeaturesIdle
    /\ LoadDatasetIdle
    /\ EnsureIdIdle
    /\ CacheIdle
    /\ LoaderIdle
    /\ BridgeIdle
    /\ ComprehensiveIdle
    /\ ApplierIdle
ParitySpecNext ==
    \/ ReorderKeys
       /\ UNCHANGED <<covVars, mergeVars, hashVars, manVars, endpointVars, loadFeaturesVars, loadDatasetVars, ensureIdVars, cacheVars, loaderVars, bridgeVars, comprehensiveVars, applierVars>>
    \/ \E path \in Positions(fig1), new \in ReplacementNodes :
          ReplaceValue(path, new)
       /\ UNCHANGED <<covVars, mergeVars, hashVars, manVars, endpointVars, loadFeaturesVars, loadDatasetVars, ensureIdVars, cacheVars, loaderVars, bridgeVars, comprehensiveVars, applierVars>>
    \/ \E path \in Positions(fig1) :
          DropValue(path)
       /\ UNCHANGED <<covVars, mergeVars, hashVars, manVars, endpointVars, loadFeaturesVars, loadDatasetVars, ensureIdVars, cacheVars, loaderVars, bridgeVars, comprehensiveVars, applierVars>>
    \/ SwapFigures
       /\ UNCHANGED <<covVars, mergeVars, hashVars, manVars, endpointVars, loadFeaturesVars, loadDatasetVars, ensureIdVars, cacheVars, loaderVars, bridgeVars, comprehensiveVars, applierVars>>
    \/ ParityCompare
       /\ UNCHANGED <<covVars, mergeVars, hashVars, manVars, endpointVars, loadFeaturesVars, loadDatasetVars, ensureIdVars, cacheVars, loaderVars, bridgeVars, comprehensiveVars, applierVars>>
SpecParity == ParitySpecInit /\ [][ParitySpecNext]_vars

EndpointSpecInit ==
    /\ EndpointInit
    /\ CovIdle
    /\ MergeIdle
    /\ HashIdle
    /\ ManIdle
    /\ LoadFeaturesIdle
    /\ LoadDatasetIdle
    /\ EnsureIdIdle
    /\ CacheIdle
    /\ LoaderIdle
    /\ BridgeIdle
    /\ ComprehensiveIdle
    /\ ApplierIdle
EndpointSpecNext ==
    CheckEndpointParity
    /\ UNCHANGED <<covVars, mergeVars, hashVars, manVars, loadFeaturesVars, loadDatasetVars, ensureIdVars, cacheVars, loaderVars, bridgeVars, comprehensiveVars, applierVars>>
SpecEndpoint == EndpointSpecInit /\ [][EndpointSpecNext]_vars

LoadFeaturesSpecInit ==
    /\ LoadFeaturesInit
    /\ CovIdle
    /\ MergeIdle
    /\ HashIdle
    /\ ManIdle
    /\ ParityIdle
    /\ EndpointIdle
    /\ LoadDatasetIdle
    /\ EnsureIdIdle
    /\ CacheIdle
    /\ LoaderIdle
    /\ BridgeIdle
    /\ ComprehensiveIdle
    /\ ApplierIdle
LoadFeaturesSpecNext ==
    LoadFeaturesCall
    /\ UNCHANGED <<covVars, mergeVars, hashVars, manVars, parityVars, endpointVars, loadDatasetVars, ensureIdVars, cacheVars, loaderVars, bridgeVars, comprehensiveVars, applierVars>>
SpecLoadFeatures == LoadFeaturesSpecInit /\ [][LoadFeaturesSpecNext]_vars

LoadDatasetSpecInit ==
    /\ LoadDatasetInit
    /\ CovIdle
    /\ MergeIdle
    /\ HashIdle
    /\ ManIdle
    /\ ParityIdle
    /\ EndpointIdle
    /\ LoadFeaturesIdle
    /\ EnsureIdIdle
    /\ CacheIdle
    /\ LoaderIdle
    /\ BridgeIdle
    /\ ComprehensiveIdle
    /\ ApplierIdle
LoadDatasetSpecNext ==
    LoadDatasetCall
    /\ UNCHANGED <<covVars, mergeVars, hashVars, manVars, parityVars, endpointVars, loadFeaturesVars, ensureIdVars, cacheVars, loaderVars, bridgeVars, comprehensiveVars, applierVars>>
SpecLoadDataset == LoadDatasetSpecInit /\ [][LoadDatasetSpecNext]_vars

EnsureIdSpecInit ==
    /\ EnsureIdInit
    /\ CovIdle
    /\ MergeIdle
    /\ HashIdle
    /\ ManIdle
    /\ ParityIdle
    /\ EndpointIdle
    /\ LoadFeaturesIdle
    /\ LoadDatasetIdle
    /\ CacheIdle
    /\ LoaderIdle
    /\ BridgeIdle
    /\ ComprehensiveIdle
    /\ ApplierIdle
EnsureIdSpecNext ==
    \/ EnsureIdColumn
       /\ UNCHANGED <<covVars, mergeVars, hashVars, manVars, parityVars, endpointVars, loadFeaturesVars, loadDatasetVars, cacheVars, loaderVars, bridgeVars, comprehensiveVars, applierVars>>
    \/ MoveRows
       /\ UNCHANGED <<covVars, mergeVars, hashVars, manVars, parityVars, endpointVars, loadFeaturesVars, loadDatasetVars, cacheVars, loaderVars, bridgeVars, comprehensiveVars, applierVars>>
SpecEnsureId == EnsureIdSpecInit /\ [][EnsureIdSpecNext]_vars

CacheSpecInit ==
    /\ CacheInit
    /\ CovIdle
    /\ MergeIdle
    /\ HashIdle
    /\ ManIdle
    /\ ParityIdle
    /\ EndpointIdle
    /\ LoadFeaturesIdle
    /\ LoadDatasetIdle
    /\ EnsureIdIdle
    /\ LoaderIdle
    /\ BridgeIdle
    /\ ComprehensiveIdle
    /\ ApplierIdle
CacheSpecNext ==
    \/ get_merged_dataframe
       /\ UNCHANGED <<covVars, mergeVars, hashVars, manVars, parityVars, endpointVars, loadFeaturesVars, loadDatasetVars, ensureIdVars, loaderVars, bridgeVars, comprehensiveVars, applierVars>>
    \/ get_features_columns_present
       /\ UNCHANGED <<covVars, mergeVars, hashVars, manVars, parityVars, endpointVars, loadFeaturesVars, loadDatasetVars, ensureIdVars, loaderVars, bridgeVars, comprehensiveVars, applierVars>>
    \/ clear_cache
       /\ UNCHANGED <<covVars, mergeVars, hashVars, manVars, parityVars, endpointVars, loadFeaturesVars, loadDatasetVars, ensureIdVars, loaderVars, bridgeVars, comprehensiveVars, applierVars>>
    \/ DiskChanges
       /\ UNCHANGED <<covVars, mergeVars, hashVars, manVars, parityVars, endpointVars, loadFeaturesVars, loadDatasetVars, ensureIdVars, loaderVars, bridgeVars, comprehensiveVars, applierVars>>
    \/ StrictEnvChanges
       /\ UNCHANGED <<covVars, mergeVars, hashVars, manVars, parityVars, endpointVars, loadFeaturesVars, loadDatasetVars, ensureIdVars, loaderVars, bridgeVars, comprehensiveVars, applierVars>>
SpecCache == CacheSpecInit /\ [][CacheSpecNext]_vars

LoaderSpecInit ==
    /\ LoaderInit
    /\ CovIdle
    /\ MergeIdle
    /\ HashIdle
    /\ ManIdle
    /\ ParityIdle
    /\ EndpointIdle
    /\ LoadFeaturesIdle
    /\ LoadDatasetIdle
    /\ EnsureIdIdle
    /\ CacheIdle
    /\ BridgeIdle
    /\ ComprehensiveIdle
    /\ ApplierIdle
LoaderSpecNext ==
    \/ LoadFeaturesMethod
       /\ UNCHANGED <<covVars, mergeVars, hashVars, manVars, parityVars, endpointVars, loadFeaturesVars, loadDatasetVars, ensureIdVars, cacheVars, bridgeVars, comprehensiveVars, applierVars>>
    \/ MergeDataMethod
       /\ UNCHANGED <<covVars, mergeVars, hashVars, manVars, parityVars, endpointVars, loadFeaturesVars, loadDatasetVars, ensureIdVars, cacheVars, bridgeVars, comprehensiveVars, applierVars>>
SpecLoader == LoaderSpecInit /\ [][LoaderSpecNext]_vars

BridgeSpecInit ==
    /\ BridgeInit
    /\ CovIdle
    /\ MergeIdle
    /\ HashIdle
    /\ ManIdle
    /\ ParityIdle
    /\ EndpointIdle
    /\ LoadFeaturesIdle
    /\ LoadDatasetIdle
    /\ EnsureIdIdle
    /\ CacheIdle
    /\ LoaderIdle
    /\ ComprehensiveIdle
    /\ ApplierIdle
BridgeSpecNext ==
    BridgeMain
    /\ UNCHANGED <<covVars, mergeVars, hashVars, manVars, parityVars, endpointVars, loadFeaturesVars, loadDatasetVars, ensureIdVars, cacheVars, loaderVars, comprehensiveVars, applierVars>>
SpecBridge == BridgeSpecInit /\ [][BridgeSpecNext]_vars

ComprehensiveSpecInit ==
    /\ ComprehensiveInit
    /\ CovIdle
    /\ MergeIdle
    /\ HashIdle
    /\ ManIdle
    /\ ParityIdle
    /\ EndpointIdle
    /\ LoadFeaturesIdle
    /\ LoadDatasetIdle
    /\ EnsureIdIdle
    /\ CacheIdle
    /\ LoaderIdle
    /\ BridgeIdle
    /\ ApplierIdle
ComprehensiveSpecNext ==
    \/ \E include_filters \in BOOLEAN :
          ComprehensiveStart(include_filters)
       /\ UNCHANGED <<covVars, mergeVars, hashVars, manVars, parityVars, endpointVars, loadFeaturesVars, loadDatasetVars, ensureIdVars, cacheVars, loaderVars, bridgeVars, applierVars>>
    \/ \E answer \in Answers :
          ComprehensiveScenario(answer)
       /\ UNCHANGED <<covVars, mergeVars, hashVars, manVars, parityVars, endpointVars, loadFeaturesVars, loadDatasetVars, ensureIdVars, cacheVars, loaderVars, bridgeVars, applierVars>>
    \/ ComprehensiveReturn
       /\ UNCHANGED <<covVars, mergeVars, hashVars, manVars, parityVars, endpointVars, loadFeaturesVars, loadDatasetVars, ensureIdVars, cacheVars, loaderVars, bridgeVars, applierVars>>
SpecComprehensive == ComprehensiveSpecInit /\ [][ComprehensiveSpecNext]_vars

ApplierSpecInit ==
    /\ ApplierInit
    /\ CovIdle
    /\ MergeIdle
    /\ HashIdle
    /\ ManIdle
    /\ ParityIdle
    /\ EndpointIdle
    /\ LoadFeaturesIdle
    /\ LoadDatasetIdle
    /\ EnsureIdIdle
    /\ CacheIdle
    /\ LoaderIdle
    /\ BridgeIdle
    /\ ComprehensiveIdle
ApplierSpecNext ==
    ApplierMain
    /\ UNCHANGED <<covVars, mergeVars, hashVars, manVars, parityVars, endpointVars, loadFeaturesVars, loadDatasetVars, ensureIdVars, cacheVars, loaderVars, bridgeVars, comprehensiveVars>>
SpecApplier == ApplierSpecInit /\ [][ApplierSpecNext]_vars

-----------------------------------------------------------------------------
(* Claims about integrity.coverage, under SpecCoverage *)

\* C2: coverage(left_ids, right_ids) is |left_ids /\ right_ids| / |left_ids|
\* x 100 whenever left_ids is not empty (so 0 when right_ids is empty, and
\* always within 0..100), and 100 whenever left_ids is empty.
C2_CoverageFormula ==
    coverage_pct # None =>
        LET c == Val(coverage_pct)
        IN  /\ c.den > 0
            /\ left_ids # {} =>
                 PctEq(c, Pct(Cardinality(left_ids \cap right_ids) * 100,
                              Cardinality(left_ids)))
            /\ (left_ids # {} /\ right_ids = {}) => PctEq(c, Pct(0, 1))
            /\ PctLeq(Pct(0, 1), c) /\ PctLeq(c, Pct(100, 1))
            /\ left_ids = {} => PctEq(c, Pct(100, 1))

\* a call on a dataset of which a part, not all, is covered by a feature set
\* of another size
C2_Witness ==
    /\ coverage_pct # None
    /\ left_ids \cap right_ids # {}
    /\ left_ids \ right_ids # {}
    /\ Cardinality(right_ids) # Cardinality(left_ids)

-----------------------------------------------------------------------------
(* Claims about _merge_features_with_dataset, under SpecMerge *)

MergeCalled == merge_outcome # "idle"

\* the share of the dataset's identifiers found among the feature identifiers
MergeCoverage == coverage(DatasetIds(dataset), FeatureIds(features))

\* rows in which every feature column is missing, rows in which one is
BlankRows(m) ==
    SumOver(m, {k \in MergedRowKinds : k.cluster_labels = NaN /\ k.umap2d_x = NaN})
RowsMissingAFeature(m) ==
    SumOver(m, {k \in MergedRowKinds : k.cluster_labels = NaN \/ k.umap2d_x = NaN})

\* the dataset rows whose identifier appears in the bundle
MatchedDatasetRows ==
    SumOver(dataset, DatasetIds(dataset) \cap FeatureIds(features))

\* the bundle is one pd.DataFrame(features) accepts: list columns only
TabularBundle == features.cluster_titles = "list" /\ ~features.scalars

\* C1: in strict mode the merge raises StartupIntegrityError, and returns no
\* table, for every pair whose coverage is below 99.5%, and returns the
\* merged table at a coverage of 99.5% or more (stated for the bundles the
\* merge can tabulate).
C1_StrictRaisesExactlyBelowThreshold ==
    (MergeCalled /\ strict_mode /\ TabularBundle) =>
        IF PctLess(MergeCoverage, MIN_COVERAGE_PERCENT)
        THEN merge_outcome = "StartupIntegrityError" /\ merged_df = None
        ELSE merge_outcome = "returned" /\ merged_df # None

\* C3: every merged table returned has exactly as many rows as the dataset,
\* for every feature bundle, and every row whose identifier is absent from
\* the bundle has missing values in all feature columns.
C3_RowCountIsDatasetRowCount ==
    merge_outcome = "returned" =>
        LET m == Val(merged_df)
        IN  /\ Rows(m) = Rows(dataset)
            /\ \A k \in MergedRowKinds :
                 (m[k] > 0 /\ k.id \notin FeatureIds(features)) =>
                    (k.cluster_labels = NaN /\ k.umap2d_x = NaN)

\* C4: in non-strict mode, for a dataset of N rows of which K have their
\* identifier in the bundle, the merge raises no integrity error and returns
\* a table of N rows of which exactly N - K have blank feature values, the
\* matched rows carrying the values recorded for their identifier (stated
\* for the bundles the merge can tabulate).
C4_NonStrictReturnsNRows ==
    (MergeCalled /\ ~strict_mode /\ TabularBundle) =>
        /\ merge_outcome = "returned"
        /\ LET m == Val(merged_df)
           IN  /\ Rows(m) = Rows(dataset)
               /\ BlankRows(m) = Rows(dataset) - MatchedDatasetRows
               /\ \A k \in MergedRowKinds :
                    (m[k] > 0 /\ k.id \in FeatureIds(features)) =>
                       features.rows[[id |-> k.id,
                                      cluster_labels |-> k.cluster_labels]] > 0

\* C5: when the bundle's identifier set equals the dataset's, coverage is 100,
\* the merge succeeds in strict and in non-strict mode, and no row of the
\* merged table has a missing feature column (stated for the bundles the
\* merge can tabulate).
C5_EqualIdSetsMergeCompletely ==
    (MergeCalled /\ TabularBundle /\ DatasetIds(dataset) = FeatureIds(features)) =>
        /\ PctEq(MergeCoverage, Pct(100, 1))
        /\ merge_outcome = "returned"
        /\ RowsMissingAFeature(Val(merged_df)) = 0

\* the strict check of the merge engine on this pair: the unmatched-row rate
\* of the joined table is above 0.5%
MergeEngineRejects == StrictModeFails(LeftMerge(dataset, features))

\* the strict check of the manifest engine on this pair: the coverage of the
\* dataset's identifier set by the bundle's is below 99.5%
ManifestEngineRejects ==
    PctLess(coverage(DatasetIds(dataset), FeatureIds(features)), MIN_COVERAGE_PERCENT)

\* C26: the strict check of the merge engine (unmatched-row rate above 0.5%)
\* and the strict check of the manifest engine (set coverage below 99.5%)
\* accept and reject exactly the same dataset/bundle pairs, also when
\* identifiers repeat and when matched rows have a missing cluster label
\* (stated for the bundles both engines can tabulate, after a strict merge).
C26_EnginesRejectTheSamePairs ==
    (MergeCalled /\ strict_mode /\ TabularBundle) =>
        /\ (merge_outcome = "StartupIntegrityError") <=> MergeEngineRejects
        /\ MergeEngineRejects <=> ManifestEngineRejects

-----------------------------------------------------------------------------
(* Claims about sha256_file, under SpecHash *)

\* two files of the same length that differ in exactly one byte
DifferInOneByte(c, d) ==
    /\ Len(c) = Len(d)
    /\ Cardinality({i \in 1..Len(c) : c[i] # d[i]}) = 1

\* what holds of every call, and of every two calls, of sha256_file
HashCallsAgree ==
    /\ hash_last # None =>
         LET b == Val(hash_last)
         IN  /\ b.outcome = "FileNotFoundError" <=> b.content = None
             /\ b.outcome = "returned" <=> b.content # None
             /\ b.outcome = "returned" <=> b.digest # None
    /\ (hash_prev # None /\ hash_last # None) =>
         LET a == Val(hash_prev)
             b == Val(hash_last)
         IN  (a.outcome = "returned" /\ b.outcome = "returned") =>
                /\ a.content = b.content => a.digest = b.digest
                /\ DifferInOneByte(Val(a.content), Val(b.content)) =>
                      a.digest # b.digest

\* a step that is a call of sha256_file leaves every file as it was
HashCallKeepsFiles ==
    (hash_last' # hash_last \/ hash_prev' # hash_prev) => fs' = fs

\* C10: sha256_file is a function of the file's content only: the same
\* content, under any path and whatever happened in between, gives the same
\* digest, two contents that differ in one byte give different digests, the
\* call leaves the files unchanged, and a missing path raises
\* FileNotFoundError.
C10_Sha256OfContentOnly == []HashCallsAgree /\ [][HashCallKeepsFiles]_vars

\* the same content of more than one block hashed under two paths, the
\* first of the two files having changed since
C10_Witness ==
    /\ hash_prev # None /\ hash_last # None
    /\ LET a == Val(hash_prev)
           b == Val(hash_last)
       IN  /\ a.path # b.path
           /\ a.outcome = "returned" /\ b.outcome = "returned"
           /\ a.content = b.content
           /\ Len(Val(a.content)) > BlockSize
           /\ fs[a.path] # a.content

-----------------------------------------------------------------------------
(* Claims about generate_or_validate_manifest *)

\* the step is a call of generate_or_validate_manifest
ManifestCallStep == now' = now + 1

\* the last step was a call and it returned a manifest
ManifestReturned == m_outcome \in {"reused", "created"}

CurrentHash(p) == sha256_hexdigest(Val(fs[p]))

\* the manifest a call finds has the hashes of the two files as they are
FindsMatching ==
    LET existing == read_manifest(manifest_file)
    IN  /\ existing # None
        /\ Val(existing).dataset_sha256 = Some(CurrentHash(DATASET_FILE))
        /\ Val(existing).features_sha256 = Some(CurrentHash(FEATURES_FILE))

\* the coverage of the data of the last call, in hundredths of a percent
DataCoverage(ddf, fdata) ==
    LET l == Range(ddf)
        r == Range(fdata.id)
    IN  IF l = {} THEN 10000
        ELSE Round2(Pct(Cardinality(l \cap r) * 100, Cardinality(l)))

\* C29: for every sequence of calls of generate_or_validate_manifest with
\* varying strict_mode, the manifest a call returns has as strict_mode the
\* strict_mode argument of that call.
C29_ReturnedStrictModeIsTheArgument ==
    ManifestReturned => Val(m_returned).strict_mode = m_strict_mode

\* C6: a call that gets to the manifest and finds one whose two hashes are
\* those of the current files returns that manifest, every field as it was,
\* and leaves the manifest file alone; when either hash differs (or nothing
\* readable is found) the manifest is not reused.
C6_ReuseOnMatchingHashes ==
    [][(ManifestCallStep /\ m_outcome' \in {"reused", "created"}) =>
         IF FindsMatching
         THEN /\ m_outcome' = "reused"
              /\ m_returned' = read_manifest(manifest_file)
              /\ manifest_file' = manifest_file
         ELSE m_outcome' = "created"]_vars

\* a call reused a manifest whose rows are not those of the data it was given
C6_Witness ==
    /\ m_outcome = "reused"
    /\ m_returned = read_manifest(manifest_file)
    /\ Val(m_returned).rows_dataset # Len(dataset_df)

\* right after a call that returned, the manifest on disk is the returned
\* one and its hashes are those of the files
ReturnedIsCurrent ==
    ManifestReturned =>
        /\ manifest_file # None
        /\ read_manifest(manifest_file) = m_returned
        /\ m_returned # None
        /\ Val(m_returned).dataset_sha256 = Some(CurrentHash(DATASET_FILE))
        /\ Val(m_returned).features_sha256 = Some(CurrentHash(FEATURES_FILE))

\* a returning call that finds no manifest with the current hashes writes a
\* fresh one made from its arguments, and returns it
FreshWhenStale ==
    (ManifestCallStep /\ m_outcome' \in {"reused", "created"} /\ ~FindsMatching)
    => /\ m_outcome' = "created"
       /\ manifest_file' = Some(Readable(Val(m_returned')))
       /\ Val(m_returned').dataset_sha256 = Some(CurrentHash(DATASET_FILE))
       /\ Val(m_returned').features_sha256 = Some(CurrentHash(FEATURES_FILE))
       /\ Val(m_returned').rows_dataset = Len(dataset_df')
       /\ Val(m_returned').rows_features = Len(features_data'.id)
       /\ Val(m_returned').coverage_pct = DataCoverage(dataset_df', features_data')
       /\ Val(m_returned').generated_at = now'

\* C7: after every call that returns, the manifest on disk and the returned
\* one carry the hashes of the current files; when the prior manifest is
\* absent, unreadable or has a hash that does not match, a fresh manifest
\* (current hashes, the rows of the dataset, the length of the feature id
\* array, the coverage of the data) is written over it and returned.
C7_ManifestIsCurrentAfterCall ==
    []ReturnedIsCurrent /\ [][FreshWhenStale]_vars

\* a call found a manifest of other files over which it wrote a fresh one
C7_Witness ==
    /\ m_outcome = "created"
    /\ now >= 2
    /\ Val(m_returned).generated_at = now
    /\ read_manifest(manifest_file) = m_returned
    /\ Val(m_returned).rows_features > Cardinality(Range(features_data.id))

\* C8: a second call right after one that returned, with the files as they
\* were and the same data, returns the same manifest (hashes, rows, coverage
\* and generated_at of the first call) and does not write; with the same
\* strict_mode it does return.
C8_SecondCallReturnsTheSame ==
    [][(/\ ManifestReturned
        /\ ManifestCallStep
        /\ dataset_df' = dataset_df
        /\ features_data' = features_data)
       => /\ m_strict_mode' = m_strict_mode => m_outcome' = "reused"
          /\ m_outcome' \in {"reused", "created"} =>
                /\ m_outcome' = "reused"
                /\ Val(m_returned').dataset_sha256 = Val(m_returned).dataset_sha256
                /\ Val(m_returned').features_sha256 = Val(m_returned).features_sha256
                /\ Val(m_returned').rows_dataset = Val(m_returned).rows_dataset
                /\ Val(m_returned').rows_features = Val(m_returned).rows_features
                /\ Val(m_returned').coverage_pct = Val(m_returned).coverage_pct
                /\ Val(m_returned').generated_at = Val(m_returned).generated_at
                /\ manifest_file' = manifest_file]_vars

\* the second of two calls returned the manifest that the call before it made
\* of the same data
C8_Witness ==
    /\ m_outcome = "reused"
    /\ now >= 2
    /\ Val(m_returned).generated_at = now - 1
    /\ Val(m_returned).rows_dataset = Len(dataset_df)
    /\ Val(m_returned).rows_dataset > 0
    /\ Val(m_returned).rows_features = Len(features_data.id)
    /\ Val(m_returned).coverage_pct = DataCoverage(dataset_df, features_data)

\* the data of a call fail the strict validation
BelowMinCoverage(ddf, fdata) ==
    Range(ddf) # {} /\
    1000 * Cardinality(Range(ddf) \cap Range(fdata.id))
        < MIN_COVERAGE_PERCENT_X10 * Cardinality(Range(ddf))

\* C9: a strict call whose data have a coverage below 99.5% or lack a
\* required feature column raises StartupIntegrityError, returns no manifest
\* and leaves the manifest file as it was.
C9_StrictRaisesBeforeManifest ==
    [][(/\ ManifestCallStep
        /\ m_strict_mode'
        /\ \/ BelowMinCoverage(dataset_df', features_data')
           \/ REQUIRED_FEATURES_COLUMNS \ features_data'.columns # {})
       => /\ m_outcome' = "StartupIntegrityError"
          /\ m_returned' = None
          /\ manifest_file' = manifest_file]_vars

-----------------------------------------------------------------------------
(* Claims about compare_figure_parity, under SpecParity *)

Compared == parity_result # None

\* the edit changed one leaf into another leaf
OneLeafChanged ==
    /\ edit.kind = "replace"
    /\ IsLeaf(NodeAt(fig1, edit.path))
    /\ IsLeaf(NodeAt(fig2, edit.path))

\* the place of the edit is inside a field that normalisation removes
UnderRemovedField == edit.path # <<>> /\ edit.path[1].key \in fields_to_remove

\* C11: two figures of the same structure, the second listing the keys of its
\* mappings in another order at any depth (or in the same order), compare
\* with parity_ok true and equal hashes.
C11_KeyOrderDoesNotMatter ==
    (Compared /\ edit.kind \in {"none", "reorder"}) =>
        /\ Val(parity_result).parity_ok
        /\ Val(parity_result).hash_regular = Val(parity_result).hash_baseline
        /\ ~Val(parity_result).has_first_difference

\* compared: a figure with a mapping inside a list, that mapping's keys in
\* another order in the second figure
C11_Witness ==
    /\ Compared
    /\ edit.kind = "reorder"
    /\ \E p \in Positions(fig1) :
         /\ p[Len(p)].t = "index"
         /\ NodeAt(fig1, p).kind = "dict"
         /\ NodeAt(fig1, p).kids # NodeAt(fig2, p).kids

\* C12: when the second figure is a copy of the first with exactly one leaf
\* changed, the comparison reports parity_ok false and a first difference
\* that is a value mismatch at the path of the changed leaf (stated for a
\* leaf outside the fields normalisation removes and a new value of the type
\* of the old one).
C12_ChangedLeafIsLocated ==
    (/\ Compared
     /\ OneLeafChanged
     /\ ~UnderRemovedField
     /\ NodeAt(fig1, edit.path).kind = NodeAt(fig2, edit.path).kind)
    => /\ ~Val(parity_result).parity_ok
       /\ Val(parity_result).has_first_difference
       /\ Val(parity_result).first_difference
            = Some(Difference("Value mismatch", edit.path, ""))

\* the path leads to a value of obj
RECURSIVE PathExists(_, _)
PathExists(obj, path) ==
    IF path = <<>> THEN TRUE
    ELSE LET step == Head(path)
         IN  /\ IF step.t = "key"
                THEN obj.kind = "dict" /\ step.key \in KeysOf(obj)
                ELSE obj.kind = "list" /\ step.index < Len(obj.kids)
             /\ PathExists(NodeAt(obj, <<step>>), Tail(path))

\* the difference d is one the two structures have at its path
ActualDivergence(d, a, b) ==
    /\ PathExists(a, d.path) /\ PathExists(b, d.path)
    /\ LET x == NodeAt(a, d.path)
           y == NodeAt(b, d.path)
       IN  \/ d.kind = "Type mismatch" /\ x.kind # y.kind
           \/ /\ d.kind = "Key missing in second dict"
              /\ x.kind = "dict" /\ y.kind = "dict"
              /\ d.key \in KeysOf(x) \ KeysOf(y)
           \/ /\ d.kind = "Key missing in first dict"
              /\ x.kind = "dict" /\ y.kind = "dict"
              /\ d.key \in KeysOf(y) \ KeysOf(x)
           \/ /\ d.kind = "List length mismatch"
              /\ x.kind = "list" /\ y.kind = "list"
              /\ Len(x.kids) # Len(y.kids)
           \/ /\ d.kind = "Value mismatch"
              /\ IsLeaf(x) /\ IsLeaf(y) /\ x.kind = y.kind
              /\ x.val # y.val

\* C14: the result has a first_difference exactly when the two hashes
\* differ, and then it is not null and names a divergence of one of the four
\* kinds that the two normalised structures have at its path.
C14_DifferenceExactlyOnMismatch ==
    Compared =>
        LET r == Val(parity_result)
        IN  /\ r.has_first_difference <=> r.hash_regular # r.hash_baseline
            /\ r.hash_regular # r.hash_baseline =>
                 /\ r.first_difference # None
                 /\ ActualDivergence(Val(r.first_difference),
                                     normalize_figure_dict(fig1),
                                     normalize_figure_dict(fig2))

\* the value replaced is the value of a volatile field or inside one
InsideVolatileField ==
    \E i \in 1..Len(edit.path) : edit.path[i].key \in fields_to_remove

\* C15: two figures that differ only in the value of a field uid, meta or
\* _plotly_private, at whatever depth the field is, have the same hash and
\* compare as equal.
C15_VolatileFieldsIgnored ==
    (Compared /\ edit.kind = "replace" /\ InsideVolatileField) =>
        /\ Val(parity_result).parity_ok
        /\ Val(parity_result).hash_regular = Val(parity_result).hash_baseline

-----------------------------------------------------------------------------
(* Claims about check_endpoint_parity, under SpecEndpoint *)

\* strict mode as the environment decides it: VISUAL_PARITY_STRICT when it
\* is true or false, otherwise STRICT_FEATURES, true when not set
ParityStrict ==
    IF VISUAL_PARITY_STRICT \in {Some("true"), Some("TRUE")} THEN TRUE
    ELSE IF VISUAL_PARITY_STRICT = Some("false") THEN FALSE
    ELSE STRICT_FEATURES \in {None, Some("true"), Some("TRUE")}

\* the two endpoints answered with figures of different hashes
EndpointMismatch ==
    /\ endpoint_type \in {"radar", "3d"}
    /\ service_ok
    /\ calculate_figure_hash(fig1) # calculate_figure_hash(fig2)

\* C13: with parity strict mode enabled check_endpoint_parity raises
\* ParityMismatchError on every mismatch and never returns a result with
\* parity_ok false; with strict mode disabled it returns the result with
\* parity_ok false and does not raise ParityMismatchError.
C13_StrictModeRaisesOnMismatch ==
    endpoint_outcome # "idle" =>
        /\ (ParityStrict /\ EndpointMismatch) =>
              endpoint_outcome = "ParityMismatchError"
        /\ ParityStrict =>
              ~(endpoint_outcome = "returned" /\ ~Val(parity_result).parity_ok)
        /\ (~ParityStrict /\ EndpointMismatch) =>
              endpoint_outcome = "returned" /\ ~Val(parity_result).parity_ok
        /\ ~ParityStrict => endpoint_outcome # "ParityMismatchError"

\* a mismatch raised because VISUAL_PARITY_STRICT, in capitals, enables the
\* strict mode that STRICT_FEATURES disables
C13_Witness ==
    /\ endpoint_outcome = "ParityMismatchError"
    /\ VISUAL_PARITY_STRICT = Some("TRUE")
    /\ STRICT_FEATURES = Some("false")
    /\ EndpointMismatch

-----------------------------------------------------------------------------
(* Claims about _load_features *)

\* _load_features read the bundle of the file and went on to the identifiers
FeaturesRead ==
    /\ loaded_features # None
    /\ features_file.exists
    /\ ReaderThatLoads(features_file) # "none"

FeaturesReturned ==
    /\ loaded_features # None
    /\ Val(loaded_features).outcome = "returned"

\* the arrays identifiers are counted from, as the file has them
CountedArrays ==
    {features_file.bundle[k] :
        k \in {k \in {"cluster_labels", "umap2d_x", "umap2d_y"} :
                 features_file.bundle[k] # None}}

\* the length of the longest array present among them, 0 when none is
LongestPresent ==
    IF CountedArrays = {} THEN 0
    ELSE CHOOSE n \in 0..MaxArrayLen :
            /\ \E a \in CountedArrays : Len(Val(a)) = n
            /\ \A a \in CountedArrays : Len(Val(a)) <= n

\* identifiers can be had: the file has them or there is a record to count
IdsCanBeHad == features_file.bundle.id # None \/ LongestPresent > 0

\* the required keys absent once identifiers were synthesised
StillAbsent ==
    {k \in REQUIRED_FEATURES_COLUMNS \ {"id"} : features_file.bundle[k] = None}
        \cup (IF IdsCanBeHad THEN {} ELSE {"id"})

AllFiveKeys ==
    FeaturesReturned =>
        \A k \in REQUIRED_FEATURES_COLUMNS :
            Val(Val(loaded_features).features)[k] # None

IsOrionIds(ids, n) ==
    /\ Len(ids) = n
    /\ \A i \in 1..n :
          ids[i] = <<"orion_", 0, 0, 0, 0, (i - 1) \div 10, (i - 1) % 10>>

OtherArraysKept ==
    \A k \in REQUIRED_FEATURES_COLUMNS \ {"id"} :
        Val(Val(loaded_features).features)[k] = features_file.bundle[k]

StoredIdsKept ==
    (FeaturesReturned /\ features_file.bundle.id # None) =>
        /\ Val(Val(loaded_features).features).id = features_file.bundle.id
        /\ OtherArraysKept

\* C17 as stated: a bundle with no id array gets the identifiers
\* orion_000000, orion_000001, ..., exactly n of them, n the length of the
\* longest array present among cluster_labels, umap2d_x and umap2d_y, and
\* every other array is unchanged; a bundle with an id array keeps it.
C17_SyntheticIdsForLongestArray ==
    /\ (FeaturesRead /\ features_file.bundle.id = None /\ StillAbsent \subseteq {"id"}) =>
          /\ FeaturesReturned
          /\ IsOrionIds(Val(Val(Val(loaded_features).features).id), LongestPresent)
          /\ OtherArraysKept
    /\ StoredIdsKept

\* C17, amended: the identifiers are added when one of the three arrays is
\* present and not empty; when none is, _load_features raises an error and
\* adds no identifier.
C17_SyntheticIdsForLongestNonEmptyArray ==
    /\ (FeaturesRead /\ features_file.bundle.id = None /\ StillAbsent = {}) =>
          /\ FeaturesReturned
          /\ LongestPresent > 0
          /\ IsOrionIds(Val(Val(Val(loaded_features).features).id), LongestPresent)
          /\ OtherArraysKept
    /\ (FeaturesRead /\ features_file.bundle.id = None /\ LongestPresent = 0) =>
          Val(loaded_features).outcome = "ValueError: No data arrays found"
    /\ StoredIdsKept

\* two identifiers synthesised from arrays of different lengths
C17_Witness ==
    /\ FeaturesReturned
    /\ features_file.bundle.id = None
    /\ Len(Val(features_file.bundle.cluster_labels)) = 1
    /\ Len(Val(features_file.bundle.umap2d_y)) = 2
    /\ Len(Val(Val(Val(loaded_features).features).id)) = 2

-----------------------------------------------------------------------------
(* Claims about _load_dataset *)

DatasetCalled == loaded_dataset # None

\* the spreadsheet of the same basename
Sibling ==
    IF Len(dataset_file) = 1 THEN dataset_file \o <<".xlsx">>
    ELSE [dataset_file EXCEPT ![Len(dataset_file)] = ".xlsx"]

ColumnarReads ==
    /\ endswith(dataset_file, ".parquet")
    /\ dataset_files[dataset_file] = "parquet"

\* the dataset was read from this path, or reading this path failed
TriedToLoad(path) ==
    /\ Val(loaded_dataset).read_from = Some(path)
    /\ Val(loaded_dataset).outcome =
          (IF dataset_files[path] = "xlsx" THEN "returned" ELSE "Exception")

\* none of the files the contract names is there
NoneFound ==
    /\ endswith(dataset_file, ".parquet") =>
          /\ dataset_files[dataset_file] = "absent"
          /\ dataset_files[Sibling] = "absent"
    /\ endswith(dataset_file, ".xlsx") => dataset_files[dataset_file] = "absent"

\* C18: _load_dataset loads the columnar file when the path has the columnar
\* extension and the file exists and reads; when that file is absent or
\* does not read, it loads the spreadsheet of the same basename if that
\* exists; it loads the given path when that is itself a spreadsheet; it
\* raises the missing-file error, and no other, when none of them is found.
C18_PreferredThenFallback ==
    DatasetCalled =>
        /\ ColumnarReads =>
              Val(loaded_dataset) = DatasetResult("returned", Some(dataset_file))
        /\ (/\ endswith(dataset_file, ".parquet")
            /\ ~ColumnarReads
            /\ dataset_files[Sibling] # "absent") => TriedToLoad(Sibling)
        /\ (/\ endswith(dataset_file, ".xlsx")
            /\ dataset_files[dataset_file] # "absent") => TriedToLoad(dataset_file)
        /\ NoneFound => Val(loaded_dataset).outcome = "FileNotFoundError"

-----------------------------------------------------------------------------
(* Claims about _ensure_id_column and _derive_id_from_content *)

IdEnsured == ensured_df # None

\* the identifiers of the returned dataset, row by row
EnsuredIds ==
    [i \in 1..Len(Val(ensured_df).rows) |-> Val(ensured_df).rows[i]["id"]]

\* the values of a column of the loaded dataset, row by row
ColumnOf(c) == [i \in 1..Len(df.rows) |-> df.rows[i][c]]

\* the content hash of each row of the loaded dataset
ContentHashes ==
    [i \in 1..Len(df.rows) |-> _derive_id_from_content(df.rows[i], i - 1)]

\* C19: after _ensure_id_column the dataset has an 'id' column; a dataset
\* with a column named id in any letter case (id, ID, Id, iD) gets its
\* identifiers from that column, unchanged; only a dataset with no such
\* column gets content hashes; the other columns are unchanged.
C19_IdColumnInAnyLetterCase ==
    IdEnsured =>
        /\ "id" \in Val(ensured_df).columns
        /\ Len(Val(ensured_df).rows) = Len(df.rows)
        /\ "id" \in df.columns => EnsuredIds = ColumnOf("id")
        /\ (df.columns \cap IdColumnNames # {}) =>
              \E c \in df.columns \cap IdColumnNames : EnsuredIds = ColumnOf(c)
        /\ (df.columns \cap IdColumnNames = {}) => EnsuredIds = ContentHashes
        /\ \A c \in df.columns \ {"id"} :
              \A i \in 1..Len(df.rows) : Val(ensured_df).rows[i][c] = df.rows[i][c]

\* the identifiers were derived from the rows
IdsDerived == df.columns \cap {"id", "ID"} = {}

\* the identifier another run gave to a row of this content
SameContent(row1, row2) == \A c \in df.columns : row1[c] = row2[c]

\* C20: a derived identifier is a function of the content of the row and
\* not of its position, whatever columns the row has: two rows of the same
\* content get the same identifier, and a row that is moved keeps its
\* identifier.
C20_IdIsFunctionOfContent ==
    (IdEnsured /\ IdsDerived) =>
        /\ \A i, j \in 1..Len(df.rows) :
              df.rows[i] = df.rows[j] => EnsuredIds[i] = EnsuredIds[j]
        /\ earlier_df # None =>
              \A i, j \in 1..Len(df.rows) :
                  SameContent(Val(earlier_df).rows[i], Val(ensured_df).rows[j])
                      => Val(earlier_df).rows[i]["id"] = Val(ensured_df).rows[j]["id"]

-----------------------------------------------------------------------------
(* Claims about the caches of data_loader_fixed, under SpecCache *)

\* the step is a call of get_merged_dataframe or get_features_columns_present
CacheCallStep == cache_call' # None

\* the step is clear_cache
ClearCacheStep == cache_call' = None /\ UNCHANGED <<disk, strict_env>>

AllCachesEmpty ==
    /\ _cached_dataset = None
    /\ _cached_features = None
    /\ _cached_merged_df = None
    /\ _features_columns_present = None

\* an earlier _load_and_merge_data succeeded and clear_cache was not called
\* since: the merged table and the column list are cached
MergedIsCached == _cached_merged_df # None /\ _features_columns_present # None

\* loading the file of the disk would succeed
DatasetLoads == disk.dataset # None
FeaturesLoad ==
    /\ disk.features # None
    /\ REQUIRED_FEATURES_COLUMNS \subseteq Val(disk.features).keys

\* C21: after a successful _load_and_merge_data every later call of
\* get_merged_dataframe or get_features_columns_present returns the cached
\* merged table or column list, reads no file and merges nothing, whatever
\* happened to the files, until clear_cache; clear_cache empties the four
\* caches, and the next call reads both files and merges again.
C21_CachedUntilCleared ==
    [][/\ (CacheCallStep /\ MergedIsCached) =>
             /\ Val(cache_call').outcome = "returned"
             /\ Val(cache_call').returned =
                   (IF Val(cache_call').op = "get_merged_dataframe"
                    THEN _cached_merged_df ELSE _features_columns_present)
             /\ Val(cache_call').reads = {}
             /\ Val(cache_call').merges = 0
             /\ UNCHANGED <<_cached_dataset, _cached_features,
                            _cached_merged_df, _features_columns_present>>
       /\ ClearCacheStep => AllCachesEmpty'
       /\ (CacheCallStep /\ AllCachesEmpty) =>
             /\ "dataset" \in Val(cache_call').reads
             /\ DatasetLoads => "features" \in Val(cache_call').reads
             /\ (DatasetLoads /\ FeaturesLoad) => Val(cache_call').merges = 1
      ]_vars

\* a call answered from the caches after the dataset file was removed and
\* the features file replaced
C21_Witness ==
    /\ cache_call # None
    /\ Val(cache_call).outcome = "returned"
    /\ Val(cache_call).reads = {}
    /\ disk.dataset = None
    /\ disk.features # None
    /\ disk.features # _cached_features

\* the identifiers of a merged table, and those of them a feature row matched
MergedIds(m) == {i \in MergeIds : \E k \in MergedRowKinds : k.id = i /\ m[k] > 0}
MatchedIds(m) ==
    {i \in MergeIds : \E k \in MergedRowKinds :
        k.id = i /\ k.umap2d_x = "x" /\ m[k] > 0}

\* C27: whatever calls of get_merged_dataframe and changes of STRICT_FEATURES
\* came before, a call made while strict mode is enabled never returns a
\* merged table whose coverage is below 99.5%.
C27_StrictCallNeverReturnsLowCoverage ==
    (/\ cache_call # None
     /\ Val(cache_call).op = "get_merged_dataframe"
     /\ Val(cache_call).strict
     /\ Val(cache_call).outcome = "returned") =>
        LET m == Val(Val(cache_call).returned)
        IN  ~PctLess(coverage(MergedIds(m), MatchedIds(m)), MIN_COVERAGE_PERCENT)

\* C28: a call of _load_and_merge_data that raises leaves the four caches
\* as they were before the call; and the merged table is cached if and only
\* if the column list is.
C28_FailedCallLeavesCaches ==
    [][/\ (CacheCallStep /\ Val(cache_call').outcome # "returned") =>
             UNCHANGED <<_cached_dataset, _cached_features,
                         _cached_merged_df, _features_columns_present>>
       /\ (_cached_merged_df' # None) <=> (_features_columns_present' # None)
      ]_vars

-----------------------------------------------------------------------------
(* Claims about ORIONDataLoader, under SpecLoader *)

LoaderCalled(method) == loader_call # None /\ Val(loader_call).method = method

BothFilesThere == loader_disk.dataset # None /\ loader_disk.features # None

\* the bundle of the features file has cluster labels, and their number is
\* not the number of rows of the dataset
LengthMismatch ==
    /\ BothFilesThere
    /\ "cluster_labels" \in Val(loader_disk.features).keys
    /\ Val(loader_disk.features).size # Val(loader_disk.dataset)

\* C22: in the merge by direct correspondence, whenever the number of
\* dataset rows differs from the number of cluster labels, in either
\* direction and in strict or non-strict mode, merge_data fails and no
\* partially merged table is produced.
C22_DirectMergeFailsOnLengthMismatch ==
    (LoaderCalled("merge_data") /\ LengthMismatch) =>
        /\ Val(loader_call).outcome # "returned"
        /\ loader._merged_data = None

\* the bundle of the features file lacks the required key cluster_labels
LacksClusterLabels ==
    /\ loader_disk.features # None
    /\ "cluster_labels" \notin Val(loader_disk.features).keys

\* C23: in non-strict mode a bundle that lacks required data still makes
\* loading fail: load_features does not return a bundle without
\* cluster_labels, and no merged table is built from one.
C23_MissingRequiredIsFatalWhenNotStrict ==
    (~loader.strict_mode /\ LacksClusterLabels) =>
        /\ loader_call # None => Val(loader_call).outcome # "returned"
        /\ loader._merged_data = None

-----------------------------------------------------------------------------
(* Claims about the bridge, under SpecBridge *)

BridgeRan == bridge_run # None

\* loading, merging or validation fails in the mode of the run
BridgeStepFails ==
    /\ bridge_world.failure # None
    /\ Val(bridge_world.failure).step \in
          (IF bridge_args.mode = "clusters" THEN {"_load_features"}
           ELSE {"get_merged_dataframe", "_load_features",
                 "generate_or_validate_manifest"})

\* the run reports success
ReportsSuccess ==
    /\ Val(bridge_run).stdout.success
    /\ Val(bridge_run).exit_status = 0

\* the operation of the mode completed without error: no step failed, and
\* in clusters mode the bundle was converted and has records and clusters
OperationCompleted ==
    /\ ~BridgeStepFails
    /\ bridge_world.output_writable
    /\ bridge_args.mode = "clusters" =>
          /\ ~bridge_args.as_script
          /\ bridge_world.n_records > 0
          /\ bridge_world.n_clusters > 0

\* C24: in both modes, whenever loading, merging or validation fails, the
\* bridge writes an error object (success false, the error, the mode) to
\* the output file and to standard output and exits with a non-zero
\* status; it reports success and exits with zero only when the operation
\* completed without error.  (Stated for an output file that can be
\* written.)
C24_BridgeReportsFailure ==
    BridgeRan =>
        /\ (BridgeStepFails /\ bridge_world.output_writable) =>
              LET err == ErrorObject(Val(bridge_world.failure).error, bridge_args.mode)
              IN  /\ Val(bridge_run).stdout = err
                  /\ Val(bridge_run).output_file = Some(err)
                  /\ Val(bridge_run).exit_status # 0
        /\ ReportsSuccess => OperationCompleted

-----------------------------------------------------------------------------
(* Claims about perform_comprehensive_parity_check, under SpecComprehensive *)

ScenarioNames == {test_scenarios[i].name : i \in 1..Len(test_scenarios)}

\* the scenarios run so far are the first of the list, each once, in order
RanInListOrder ==
    /\ Len(ran) <= Len(test_scenarios)
    /\ \A i \in 1..Len(ran) : ran[i].name = test_scenarios[i].name

FailedEntries == {n \in DOMAIN pc_results.checks : ~pc_results.checks[n].parity_ok}

\* C25: perform_comprehensive_parity_check runs every scenario of its list
\* once and in list order, also after a scenario that mismatched or raised
\* (a ParityMismatchError of strict mode is recorded, not propagated); on
\* return checks has one entry for each scenario, overall_parity_ok is true
\* exactly when every entry has parity_ok true, and the failed count of the
\* summary is the number of entries with parity_ok false.
C25_EveryScenarioRunAndCounted ==
    /\ RanInListOrder
    /\ pc_returned =>
          /\ Len(ran) = Len(test_scenarios)
          /\ DOMAIN pc_results.checks = ScenarioNames
          /\ \A i \in 1..Len(ran) :
                (ran[i].answer = "differ" /\ pc_strict) =>
                    pc_results.checks[ran[i].name] =
                        [parity_ok |-> FALSE, error |-> Some("ParityMismatchError")]
          /\ pc_results.overall_parity_ok <=> FailedEntries = {}
          /\ Val(pc_results.summary).failed = Cardinality(FailedEntries)

\* four scenarios: the first raised ParityMismatchError, the second found no
\* service, the last two passed
C25_Witness ==
    /\ pc_returned
    /\ pc_strict
    /\ Len(ran) = 4
    /\ ran[1].answer = "differ"
    /\ ran[2].answer = "unavailable"
    /\ ran[3].answer = "equal"
    /\ ran[4].answer = "equal"
    /\ Val(pc_results.summary).failed = 2

-----------------------------------------------------------------------------
(* Claims about the direct-mapping applier, under SpecApplier *)

ApplierRan == app_run # None
ApplierCommitted == ApplierRan /\ Val(app_run).committed

\* the forces named in the updates the run sent
UpdatedForces ==
    {Val(app_run).batch_updates[i].force_id : i \in 1..Len(Val(app_run).batch_updates)}

\* the cluster rows whose force_ids holds the force
ClusterRowsHolding(f) == {row \in app_db.clusters : f \in Range(row.force_ids)}

\* main returned False and the database is as it was before the run
ApplierFailsUntouched ==
    /\ ~Val(app_run).returned
    /\ app_db.forces = PreviousDb.forces
    /\ app_db.clusters = PreviousDb.clusters

\* a run on files of different lengths stops before it touches the database
ApplierStopsOnLengthMismatch ==
    (ApplierRan /\ Len(app_input.titles) # Len(app_input.cluster_labels)) =>
        ApplierFailsUntouched

\* C30: after the applier commits, every driving force it updated has as
\* cluster_id the database id of a cluster row whose force_ids holds that
\* force, also when two cluster ids of the bundle have the same title; a
\* run that fails before the commit changes no cluster row and no
\* assignment of the previous state.
C30_UpdatedForcesPointAtTheirCluster ==
    ApplierRan =>
        IF ApplierCommitted
        THEN \A f \in UpdatedForces :
                \E row \in ClusterRowsHolding(f) :
                    app_db.forces[f].cluster_id = Some(row.id)
        ELSE ApplierFailsUntouched

\* the same, for the bundles whose cluster ids have names of their own, and
\* the failing runs alone
ApplierRightWhenNamesDiffer ==
    (ApplierCommitted /\
     \A c, d \in ClusterIds :
        c # d => cluster_name_of(app_input.cluster_titles, c)
                     # cluster_name_of(app_input.cluster_titles, d)) =>
        \A f \in UpdatedForces :
            \E row \in ClusterRowsHolding(f) :
                app_db.forces[f].cluster_id = Some(row.id)

ApplierFailureChangesNothing ==
    (ApplierRan /\ ~ApplierCommitted) => ApplierFailsUntouched

=============================================================================
